---- MODULE Spec2Model ----
(***************************************************************************)
(* nix-kunai: the lockfile reconciliation engine (`update`) over the       *)
(* Source / SourceMap data model, with its collaborators (the remote ref   *)
(* lister `git ls-remote` and the artifact hasher `nix store               *)
(* prefetch-file`) as nondeterministic inputs.                             *)
(*                                                                         *)
(* Strings the code inspects character by character (tags, prefixes,      *)
(* versions, commit hashes) are tuples of one-character strings; an        *)
(* Option<T> is a tuple of length 0 (None) or 1 (Some(x)).                 *)
(***************************************************************************)
EXTENDS Naturals, Sequences, FiniteSets

\* ------------------------------------------------------------------ bounds
\* Number of distinct source names the lockfile may hold (names are 1..NumSources,
\* ordered as BTreeMap orders its keys).
NumSources == 2
\* Longest list of refs the remote lister prints.
MaxRefs == 2
\* Number of consecutive invocations in one behaviour.
MaxRuns == 2

\* ------------------------------------------------------- option and result
None == <<>>
Some(x) == <<x>>

Ok(v) == [ok |-> TRUE, val |-> <<v>>, err |-> "none"]
Err(e) == [ok |-> FALSE, val |-> <<>>, err |-> e]
NotCalled == [ok |-> FALSE, val |-> <<>>, err |-> "not_called"]
Value(r) == r.val[1]

\* ----------------------------------------------------------------- strings
Digits == {"0", "1", "2", "3", "4", "5", "6", "7", "8", "9"}

\* Characters whose UTF-8 encoding takes two bytes; every other character of
\* the model is ASCII.
TwoByteChars == {"e-acute"}

\* char::len_utf8
len_utf8(c) == IF c \in TwoByteChars THEN 2 ELSE 1

\* str::len: the length in bytes.
RECURSIVE str_len(_)
str_len(s) == IF s = <<>> THEN 0 ELSE len_utf8(s[1]) + str_len(Tail(s))

starts_with(s, p) == Len(s) >= Len(p) /\ SubSeq(s, 1, Len(p)) = p

\* s.chars().nth(n): Some(the character at 0-based index n), or None.
chars_nth(s, n) == IF n + 1 <= Len(s) THEN Some(s[n + 1]) ELSE None

is_ascii_digit(c) == c \in Digits

\* s.strip_prefix(p).unwrap_or(s)
strip_prefix_or(s, p) == IF starts_with(s, p) THEN SubSeq(s, Len(p) + 1, Len(s)) ELSE s

Last(s) == s[Len(s)]

\* Ascending sequences over 1..n of length at most k (the index lists of the
\* version-sorted ref lists the lister prints).
RECURSIVE AscSeqs(_, _)
AscSeqs(n, k) ==
    IF k = 0 THEN {<<>>}
    ELSE AscSeqs(n, k - 1) \cup
         {Append(q, i) : q \in {p \in AscSeqs(n, k - 1) : Len(p) = k - 1}, i \in 1..n}

IsAscending(q) == \A i \in 1..(Len(q) - 1) : q[i] < q[i + 1]

\* -------------------------------------------------------------------- URLs
\* A URL or URL template is a sequence of tokens: a scheme-and-authority token,
\* "/" separators, literal pieces and the placeholders.
VersionToken == "{version}"
BaseTokens == {"https://h"}
NoBaseTokens == {"mailto:"}

TplGood == <<"https://h", "/", "o", "/", "r", "/", "a-", "{version}">>
TplShort == <<"https://h", "/", "{version}">>
TplRelative == <<"{version}", "/", "a">>
RepoUrl == <<"https://h", "/", "o", "/", "r">>

\* Url::as_str, the text a parsed Url holds and serde writes: a URL with a host
\* and no path has the path "/", and '{' and '}' in the path of a URL with a
\* host are percent-encoded, so a placeholder left in it reads %7B..%7D. The
\* path of a cannot-be-a-base URL is kept as it is.
Url_as_str(url) ==
    LET percent_encoded(token) ==
            IF token = "{version}" THEN "%7Bversion%7D"
            ELSE IF token = "{branch}" THEN "%7Bbranch%7D"
            ELSE token
    IN IF url[1] \in NoBaseTokens THEN url
       ELSE IF Len(url) = 1 THEN url \o <<"/">>
       ELSE [i \in 1..Len(url) |-> percent_encoded(url[i])]

\* Url::parse: a string that does not begin with a scheme is a relative URL
\* without a base, which is a parse error. The Url parsed holds the text
\* normalised, so its path and its segments are the percent-encoded ones.
Url_parse(s) ==
    IF Len(s) >= 1 /\ s[1] \in (BaseTokens \cup NoBaseTokens)
    THEN Ok(Url_as_str(s))
    ELSE Err("ParseError")

\* str::replace(from, to) on a token sequence; `to` is a sequence of pieces.
RECURSIVE replace(_, _, _)
replace(s, from, to) ==
    IF s = <<>> THEN <<>>
    ELSE (IF s[1] = from THEN to ELSE <<s[1]>>) \o replace(Tail(s), from, to)

\* Url::path_segments: None for a cannot-be-a-base URL, else the segments of
\* the path (an empty path is "/", one empty segment).
RECURSIVE split_path(_, _)
split_path(s, cur) ==
    IF s = <<>> THEN <<cur>>
    ELSE IF s[1] = "/" THEN <<cur>> \o split_path(Tail(s), <<>>)
    ELSE split_path(Tail(s), Append(cur, s[1]))

path_segments(url) ==
    IF url[1] \in NoBaseTokens THEN None
    ELSE IF Len(url) = 1 THEN Some(<<<<>>>>)
    ELSE Some(Tail(split_path(Tail(url), <<>>)))

\* updater.rs:97-116: the URL of the template with the path cut to its first
\* two segments. Url::set_path("{owner}/{repo}") begins the path with one '/',
\* so an empty owner leaves "/{repo}".
infer_git_url(from) ==
    LET parsed == Url_parse(from) IN
    IF ~parsed.ok THEN Err("CouldNotParseUrlTemplate")
    ELSE LET url == Value(parsed)
             segs == path_segments(url) IN
         IF segs = None THEN Err("ArtifactUrlNoBase")
         ELSE IF Len(segs[1]) < 2 THEN Err("InsufficientPathSegments")
         ELSE LET path == segs[1][1] \o <<"/">> \o segs[1][2]
              IN Ok(Url_as_str(<<url[1]>> \o
                               (IF path[1] = "/" THEN path ELSE <<"/">> \o path)))

\* Source::full_url: the template with {version} replaced, parsed. The Url it
\* gives is what the hasher is handed (url.to_string(), source.rs:224).
full_url(source, version) ==
    LET expanded == replace(source.artifact_url_template, VersionToken, version) IN
    IF Url_parse(expanded).ok THEN Ok(Url_as_str(expanded)) ELSE Err("BuildFullUrlError")

\* ------------------------------------------------------- the remote lister
\* What `git ls-remote` gave: whether the process could be spawned, whether
\* its output is UTF-8, and the lines it printed. A line is the commit hash
\* and the ref, the ref as its '/'-separated segments.
RefsSeg == <<"r", "e", "f", "s">>
TagsSeg == <<"t", "a", "g", "s">>

\* Tag names in version-sort order, and branch heads.
TagNames == << <<"1">>, <<"v", "1">>, <<"v", "2">>, <<"v", "x">> >>
BranchHeads ==
    << [name |-> <<"d">>, hash |-> <<"c", "c", "c", "c", "c", "c", "c">>],
       [name |-> <<"m">>, hash |-> <<"a", "a", "a", "a", "a", "a", "a">>],
       [name |-> <<"m">>, hash |-> <<"b", "b", "b", "b", "b", "b", "b">>] >>
\* The length of a commit hash.
HashLen == Len(BranchHeads[1].hash)

TagLine(i) == [hash |-> <<"a", "a">>, ref |-> <<RefsSeg, TagsSeg, TagNames[i]>>]
BranchLine(i) == [hash |-> BranchHeads[i].hash,
                  ref |-> <<RefsSeg, <<"h", "e", "a", "d", "s">>, BranchHeads[i].name>>]

SpawnFailed == [spawned |-> FALSE, utf8 |-> TRUE, lines |-> <<>>]
NotUtf8 == [spawned |-> TRUE, utf8 |-> FALSE, lines |-> <<>>]
Listing(lines) == [spawned |-> TRUE, utf8 |-> TRUE, lines |-> lines]

TagOutputs ==
    {SpawnFailed, NotUtf8} \cup
    {Listing([k \in 1..Len(q) |-> TagLine(q[k])]) :
        q \in {p \in AscSeqs(Len(TagNames), MaxRefs) : IsAscending(p)}}

\* A repository has one head per branch name.
BranchOutputs ==
    {SpawnFailed, NotUtf8} \cup
    {Listing([k \in 1..Len(q) |-> BranchLine(q[k])]) :
        q \in {p \in AscSeqs(Len(BranchHeads), MaxRefs) :
                 /\ IsAscending(p)
                 /\ \A i, j \in 1..Len(p) :
                      i # j => BranchHeads[p[i]].name # BranchHeads[p[j]].name}}

\* line.split('/').last(): the text after the last '/' of the whole line.
last_segment(line) == Last(line.ref)

\* The indices of `lines` whose last segment passes the tag filter.
fits_filter(name, filter) ==
    /\ starts_with(name, filter)
    /\ LET c == chars_nth(name, str_len(filter)) IN c # None /\ is_ascii_digit(c[1])

fetch_latest_git_tag(out, filter_opt) ==
    IF ~out.spawned THEN Err("CommandFailed")
    ELSE IF ~out.utf8 THEN Err("CommandOutputInvalidUtf8")
    ELSE LET filter == IF filter_opt = None THEN <<>> ELSE filter_opt[1]
             fit == {i \in 1..Len(out.lines) : fits_filter(last_segment(out.lines[i]), filter)}
         IN IF fit = {} THEN Err("NoTagsFitFilter")
            ELSE LET last == CHOOSE i \in fit : \A j \in fit : j <= i
                 IN Ok(strip_prefix_or(last_segment(out.lines[last]), filter))

fetch_git_branch_commit(out, branch) ==
    IF ~out.spawned THEN Err("CommandFailed")
    ELSE IF ~out.utf8 THEN Err("CommandOutputInvalidUtf8")
    ELSE LET found == {i \in 1..Len(out.lines) : last_segment(out.lines[i]) = branch}
         IN IF found = {} THEN Err("BranchNotFound")
            ELSE LET first == CHOOSE i \in found : \A j \in found : i <= j
                 IN Ok(out.lines[first].hash)

\* -------------------------------------------------------- update schemes
GitTags(repo_url, tag_prefix) ==
    [type |-> "git-tags", repo_url |-> repo_url, tag_prefix |-> tag_prefix,
     branch |-> <<>>, short_hash_length |-> 1, unpack |-> FALSE]
GitBranch(repo_url, branch, short_hash_length) ==
    [type |-> "git-branch", repo_url |-> repo_url, tag_prefix |-> None,
     branch |-> branch, short_hash_length |-> short_hash_length, unpack |-> TRUE]
Static ==
    [type |-> "static", repo_url |-> None, tag_prefix |-> None,
     branch |-> <<>>, short_hash_length |-> 1, unpack |-> FALSE]

is_static(scheme) == scheme.type = "static"

\* The repository URL: the explicit one, else inferred from the template.
git_url_of(scheme, source) ==
    IF scheme.repo_url # None THEN Ok(scheme.repo_url[1])
    ELSE infer_git_url(source.artifact_url_template)

\* VersionUpdateScheme::get_new_version_for, given what the lister prints for
\* the repository. hash[0..n] panics when the hash is shorter than n.
get_new_version_for(scheme, source, out) ==
    IF scheme.type = "static" THEN Ok(source.version)
    ELSE LET git_url == git_url_of(scheme, source) IN
         IF ~git_url.ok THEN Err("GetGitUrl")
         ELSE IF scheme.type = "git-tags"
         THEN LET r == fetch_latest_git_tag(out, scheme.tag_prefix) IN
              IF r.ok THEN r
              ELSE IF r.err = "NoTagsFitFilter" THEN Err("FetchGitTags:NoTagsFitFilter")
              ELSE Err("FetchGitTags")
         ELSE LET r == fetch_git_branch_commit(out, scheme.branch) IN
              IF ~r.ok THEN Err("FetchBranchCommit")
              ELSE IF Len(Value(r)) < scheme.short_hash_length THEN Err("panic")
              ELSE Ok(scheme.branch \o <<"-">> \o
                      SubSeq(Value(r), 1, scheme.short_hash_length))

\* The slip of leaving NoTagsFitFilter to the catch-all arm.
is_recoverable_only_git_url(err) == err = "GetGitUrl"

\* The slip of recovering from every error of the tag lister.
is_recoverable_any_tag_error(err) ==
    err \in {"GetGitUrl", "FetchGitTags:NoTagsFitFilter", "FetchGitTags"}

\* update.rs:165-192: the resolver errors `update` recovers from; any other
\* aborts the run.
is_recoverable(err) == err \in {"GetGitUrl", "FetchGitTags:NoTagsFitFilter"}

\* ------------------------------------------------------ the artifact hasher
\* What `nix store prefetch-file URL --json` gave: whether it could be spawned,
\* its exit status, and its stdout: not JSON, JSON without a string "hash",
\* or {"hash": h}.
Hashes == {"h1", "h2"}
NixOutputs ==
    {[spawned |-> FALSE, success |-> FALSE, json |-> FALSE, hash |-> None],
     [spawned |-> TRUE, success |-> FALSE, json |-> FALSE, hash |-> None],
     [spawned |-> TRUE, success |-> TRUE, json |-> FALSE, hash |-> None],
     [spawned |-> TRUE, success |-> TRUE, json |-> TRUE, hash |-> None]} \cup
    {[spawned |-> TRUE, success |-> TRUE, json |-> TRUE, hash |-> Some(h)] : h \in Hashes}

get_artifact_hash_from_url(out) ==
    IF ~out.spawned THEN Err("CommandFailed")
    ELSE IF ~out.success THEN Err("PrefetchFailed")
    ELSE IF ~out.json \/ out.hash = None THEN Err("MalformedOrIncorrectJson")
    ELSE Ok(out.hash[1])

\* ------------------------------------------------------------- data model
SourceNames == 1..NumSources

\* source.rs:13-23: a Source; `pinned` is the field update.rs:126, add.rs:166
\* and edit.rs:58 use. The sources of a lockfile have the git_url,
\* tag_prefix_filter and unpack that Source::new gives (source.rs:58-61).
NewSource(version, latest_checked_version, template, pinned, scheme) ==
    [version |-> version, latest_checked_version |-> latest_checked_version,
     artifact_url_template |-> template, git_url |-> None, hash |-> "h1",
     tag_prefix_filter |-> None, unpack |-> FALSE, pinned |-> pinned,
     update_scheme |-> scheme]

\* The sources a lockfile entry may hold when an invocation starts. A Static
\* source has latest_checked_version = version (add and update both keep it
\* so); for the other schemes the two differ after a failed prefetch.

TagSources ==
    {NewSource(<<"1">>, c, cfg[1], p, cfg[2]) :
        c \in {<<"1">>, <<"2">>}, p \in BOOLEAN,
        cfg \in {<<TplGood, GitTags(Some(RepoUrl), Some(<<"v">>))>>,
                 <<TplShort, GitTags(None, None)>>,
                 <<TplRelative, GitTags(Some(RepoUrl), Some(<<"v">>))>>}}
\* The last one asks for more characters than a commit hash of the model has.
BranchSources ==
    {NewSource(<<"m", "-", "a">>, c, TplGood, p, GitBranch(Some(RepoUrl), <<"m">>, 1)) :
        c \in {<<"m", "-", "a">>, <<"m", "-", "b">>}, p \in BOOLEAN} \cup
    {NewSource(<<"m", "-", "a">>, <<"m", "-", "a">>, TplGood, FALSE,
               GitBranch(Some(RepoUrl), <<"m">>, HashLen + 1))}
StaticSources ==
    {NewSource(<<"1">>, <<"1">>, t, p, Static) : t \in {TplGood, TplRelative}, p \in BOOLEAN}
InitSources == TagSources \cup BranchSources \cup StaticSources

\* A SourceMap: a function from the names present to their sources.
Lockfiles == UNION {[d -> InitSources] : d \in SUBSET SourceNames}

\* UpdateArgs (the output options aside); `pin` and `unpin` exclude each other.
ArgsSet ==
    {a \in [source_names : SUBSET SourceNames, refetch : BOOLEAN, force : BOOLEAN,
            pin : BOOLEAN, unpin : BOOLEAN] : ~(a.pin /\ a.unpin)}

NoCall == [resolved |-> NotCalled, url |-> NotCalled, fetched |-> NotCalled]
NoCalls == [n \in SourceNames |-> NoCall]
NoOutcomes == [n \in SourceNames |-> "none"]
NoArgs == [source_names |-> {}, refetch |-> FALSE, force |-> FALSE,
           pin |-> FALSE, unpin |-> FALSE]

\* The names of `keys` in BTreeMap iteration order.
RECURSIVE SortedSeq(_)
SortedSeq(keys) ==
    IF keys = {} THEN <<>>
    ELSE LET m == CHOOSE k \in keys : \A j \in keys : k <= j
         IN <<m>> \o SortedSeq(keys \ {m})

VARIABLES
    file,        \* the lockfile on disk: its SourceMap, truncated by a failed write, or none
    pc,          \* "idle", "loop" (inside update's for loop), "done"
    args,        \* the UpdateArgs of the current invocation
    sources,     \* the SourceMap in memory
    queue,       \* the selected names the loop has still to visit, in order
    updated,     \* UpdatedSources: the VersionDiffs in insertion order
    changed, up_to_date, skipped, errors,
    exit,        \* "running", "SUCCESS", "FAILURE", or "PANIC" (process crash)
    writes,      \* the times the current invocation set out to write the file
    loaded,      \* the SourceMap as loaded at the start of the invocation
    calls,       \* per source: what resolving, URL building and hashing gave
    outcome,     \* per source: how the loop reported it
    prev,        \* the previous invocation: its args, calls, counters and exit
    run,         \* the number of the current invocation
    probe        \* the last call of a function on its own: its name, input and result

vars == <<file, pc, args, sources, queue, updated, changed, up_to_date, skipped,
          errors, exit, writes, loaded, calls, outcome, prev, run, probe>>

\* The file holding the document `map`, the file File::create truncated whose
\* document was never fully written, and no file at the path.
OnDisk(map) == [present |-> TRUE, json |-> TRUE, map |-> map]
Truncated == [present |-> TRUE, json |-> FALSE, map |-> << >>]
NoFile == [present |-> FALSE, json |-> FALSE, map |-> << >>]

NoProbe == [fn |-> "none", in |-> << >>, out |-> << >>]

NoPrev == [valid |-> FALSE, args |-> NoArgs, calls |-> NoCalls, outcome |-> NoOutcomes,
           exit |-> "running"]

\* Nothing has run yet; at the path is one of `files`.
InitWith(files) ==
    /\ file \in files
    /\ pc = "idle"
    /\ args = NoArgs
    /\ sources = << >>
    /\ queue = << >>
    /\ updated = << >>
    /\ changed = FALSE
    /\ up_to_date = 0
    /\ skipped = 0
    /\ errors = 0
    /\ exit = "running"
    /\ writes = 0
    /\ loaded = << >>
    /\ calls = NoCalls
    /\ outcome = NoOutcomes
    /\ prev = NoPrev
    /\ run = 1
    /\ probe = NoProbe

Init == InitWith({OnDisk(m) : m \in Lockfiles} \cup {Truncated, NoFile})

\* ------------------------------------------------------------------ update
\* The slip of refusing a forced pin or unpin over all sources as well.
refuses_without_names(a) == (a.pin \/ a.unpin) /\ a.source_names = {}

\* update.rs:94: pin/unpin over all sources needs --force.
refuses(a) == (a.pin \/ a.unpin) /\ a.source_names = {} /\ ~a.force

\* The slip of a loop that does not filter.
selected_whatever(a, name) == TRUE

\* update.rs:123: the filter of the loop.
selected(a, name) == a.source_names = {} \/ name \in a.source_names

\* The invocations that may follow a finished one while the remote stays as it
\* is: the same command again, or the same without --refetch.
ArgsAfter(p) ==
    IF p.valid THEN {p.args, [p.args EXCEPT !.refetch = FALSE]} ELSE ArgsSet

Begin(a) ==
    /\ args' = a
    /\ updated' = << >>
    /\ changed' = FALSE
    /\ up_to_date' = 0
    /\ skipped' = 0
    /\ errors' = 0
    /\ writes' = 0
    /\ calls' = NoCalls
    /\ outcome' = NoOutcomes

\* update.rs:94-98
UpdateRefused ==
    /\ pc = "idle"
    /\ \E a \in ArgsAfter(prev) :
         /\ refuses(a)
         /\ Begin(a)
    /\ pc' = "done"
    /\ exit' = "FAILURE"
    /\ loaded' = << >>
    /\ UNCHANGED <<file, sources, queue, prev, run>>
    /\ UNCHANGED probe

\* update.rs:100-106 and source.rs:161-187: the file does not hold a SourceMap.
UpdateLoadFailed ==
    /\ pc = "idle"
    /\ ~file.json
    /\ \E a \in ArgsAfter(prev) :
         /\ ~refuses(a)
         /\ Begin(a)
    /\ pc' = "done"
    /\ exit' = "FAILURE"
    /\ loaded' = << >>
    /\ UNCHANGED <<file, sources, queue, prev, run>>
    /\ UNCHANGED probe

\* update.rs:100-124: load the SourceMap and enter the loop.
UpdateLoad ==
    /\ pc = "idle"
    /\ file.json
    /\ \E a \in ArgsAfter(prev) :
         /\ ~refuses(a)
         /\ Begin(a)
         /\ queue' = SortedSeq({n \in DOMAIN file.map : selected(a, n)})
    /\ sources' = file.map
    /\ loaded' = file.map
    /\ pc' = "loop"
    /\ exit' = "running"
    /\ UNCHANGED <<file, prev, run>>
    /\ UNCHANGED probe

\* The source the loop visits next.
InLoop == pc = "loop" /\ queue # << >>
name == Head(queue)
source == sources[name]

Continue == /\ queue' = Tail(queue)
            /\ UNCHANGED <<file, pc, args, exit, writes, loaded, prev, run>>

\* return ExitCode::FAILURE from inside the loop, or a panic: the process ends
\* with the SourceMap in memory dropped.
Abort(code) == /\ pc' = "done"
               /\ exit' = code
               /\ UNCHANGED <<file, args, queue, writes, loaded, outcome, prev, run>>

\* The loop reports the source as `how` (the info!/warn! line and the counter).
Reported(how) == outcome' = [outcome EXCEPT ![name] = how]

VersionDiff(old, new) == [old |-> old, new |-> new]
Record(n, diff) == Append(updated, [name |-> n, diff |-> diff])

\* update.rs:125-139
LoopPin ==
    /\ InLoop
    /\ args.pin
    /\ IF source.pinned
       THEN /\ up_to_date' = up_to_date + 1
            /\ Reported("already")
            /\ UNCHANGED <<sources, updated, changed>>
       ELSE /\ sources' = [sources EXCEPT ![name].pinned = TRUE]
            /\ Reported("pinned")
            /\ updated' = Record(name, VersionDiff(source.version, source.version))
            /\ changed' = TRUE
            /\ UNCHANGED up_to_date
    /\ Continue
    /\ UNCHANGED <<skipped, errors, calls>>
    /\ UNCHANGED probe

\* update.rs:140-154
LoopUnpin ==
    /\ InLoop
    /\ ~args.pin /\ args.unpin
    /\ IF ~source.pinned
       THEN /\ up_to_date' = up_to_date + 1
            /\ Reported("already")
            /\ UNCHANGED <<sources, updated, changed>>
       ELSE /\ sources' = [sources EXCEPT ![name].pinned = FALSE]
            /\ Reported("unpinned")
            /\ updated' = Record(name, VersionDiff(source.version, source.version))
            /\ changed' = TRUE
            /\ UNCHANGED up_to_date
    /\ Continue
    /\ UNCHANGED <<skipped, errors, calls>>
    /\ UNCHANGED probe

\* The slip of reading --force the wrong way round.
skips_pinned_when_forced(a, src) == src.pinned /\ a.force

\* update.rs:156: a pinned source is passed over unless --force.
skips_pinned(a, src) == src.pinned /\ ~a.force

\* update.rs:156-160
LoopSkipPinned ==
    /\ InLoop
    /\ ~args.pin /\ ~args.unpin
    /\ skips_pinned(args, source)
    /\ skipped' = skipped + 1
    /\ Reported("skipped")
    /\ Continue
    /\ UNCHANGED <<sources, updated, changed, up_to_date, errors, calls>>
    /\ UNCHANGED probe

\* The loop reaches the resolver for the source.
\* The slip of a pin or unpin arm that falls through instead of `continue`.
Resolving_in_pin_run == InLoop /\ ~skips_pinned(args, source)

Resolving == InLoop /\ ~args.pin /\ ~args.unpin /\ ~skips_pinned(args, source)

ListerOutputs(scheme) ==
    IF scheme.type = "git-branch" THEN BranchOutputs ELSE TagOutputs

\* The remote has not changed since the previous invocation: a call it
\* answered then gets the same answer now.
SameAsBefore(r, before) == (prev.valid /\ before # NotCalled) => r = before

\* What resolving the source can give in this invocation.
Resolutions ==
    {r \in {get_new_version_for(source.update_scheme, source, out) :
              out \in ListerOutputs(source.update_scheme)} :
        SameAsBefore(r, prev.calls[name].resolved)}

\* update.rs:165-187: a recoverable resolver error skips the source.
LoopResolveSkip ==
    /\ Resolving
    /\ \E r \in Resolutions :
         /\ ~r.ok /\ is_recoverable(r.err)
         /\ calls' = [calls EXCEPT ![name].resolved = r]
    /\ skipped' = skipped + 1
    /\ errors' = errors + 1
    /\ Reported("error")
    /\ Continue
    /\ UNCHANGED <<sources, updated, changed, up_to_date>>
    /\ UNCHANGED probe

\* update.rs:188-192: any other resolver error ends the run.
LoopResolveAbort ==
    /\ Resolving
    /\ \E r \in Resolutions :
         /\ ~r.ok /\ ~is_recoverable(r.err) /\ r.err # "panic"
         /\ calls' = [calls EXCEPT ![name].resolved = r]
    /\ Abort("FAILURE")
    /\ UNCHANGED <<sources, updated, changed, up_to_date, skipped, errors>>
    /\ UNCHANGED probe

\* updater.rs:71: slicing the commit hash out of range crashes the process.
LoopResolvePanic ==
    /\ Resolving
    /\ \E r \in Resolutions :
         /\ ~r.ok /\ r.err = "panic"
         /\ calls' = [calls EXCEPT ![name].resolved = r]
    /\ Abort("PANIC")
    /\ UNCHANGED <<sources, updated, changed, up_to_date, skipped, errors>>
    /\ UNCHANGED probe

\* The slip of comparing the candidate with the recorded version instead of
\* the version last checked.
is_stale_by_version(a, src, latest_tag) ==
    /\ ~is_static(src.update_scheme)
    /\ ~a.refetch
    /\ src.version = latest_tag

\* The slip of applying the staleness check to Static sources too.
is_stale_for_static(a, src, latest_tag) ==
    /\ ~a.refetch
    /\ src.latest_checked_version = latest_tag

\* The slip of leaving --refetch out of the staleness check.
is_stale_ignoring_refetch(a, src, latest_tag) ==
    /\ ~is_static(src.update_scheme)
    /\ src.latest_checked_version = latest_tag

\* update.rs:196-198: the staleness check.
is_stale(a, src, latest_tag) ==
    /\ ~is_static(src.update_scheme)
    /\ ~a.refetch
    /\ src.latest_checked_version = latest_tag

\* The slip of passing over an up-to-date source without counting it.
LoopStaleUncounted ==
    /\ Resolving
    /\ \E r \in Resolutions :
         /\ r.ok
         /\ is_stale(args, source, Value(r))
         /\ calls' = [calls EXCEPT ![name].resolved = r]
    /\ Reported("up_to_date")
    /\ Continue
    /\ UNCHANGED <<sources, updated, changed, skipped, errors, up_to_date>>
    /\ UNCHANGED probe

\* update.rs:196-203
LoopStale ==
    /\ Resolving
    /\ \E r \in Resolutions :
         /\ r.ok
         /\ is_stale(args, source, Value(r))
         /\ calls' = [calls EXCEPT ![name].resolved = r]
    /\ up_to_date' = up_to_date + 1
    /\ Reported("up_to_date")
    /\ Continue
    /\ UNCHANGED <<sources, updated, changed, skipped, errors>>
    /\ UNCHANGED probe

\* update.rs:205-215: the expanded template is no URL.
LoopUrlFailed ==
    /\ Resolving
    /\ \E r \in Resolutions :
         /\ r.ok
         /\ ~is_stale(args, source, Value(r))
         /\ ~full_url(source, Value(r)).ok
         /\ calls' = [calls EXCEPT ![name].resolved = r,
                                   ![name].url = full_url(source, Value(r))]
    /\ skipped' = skipped + 1
    /\ errors' = errors + 1
    /\ Reported("error")
    /\ Continue
    /\ UNCHANGED <<sources, updated, changed, up_to_date>>
    /\ UNCHANGED probe

\* update.rs:196-215: the loop reaches the hasher with candidate Value(r).
Fetching(r) ==
    /\ r.ok
    /\ ~is_stale(args, source, Value(r))
    /\ full_url(source, Value(r)).ok

\* What the hasher can give for the candidate's URL in this invocation.
Fetches(r) ==
    {h \in {get_artifact_hash_from_url(out) : out \in NixOutputs} :
        prev.calls[name].url = full_url(source, Value(r))
            => SameAsBefore(h, prev.calls[name].fetched)}

Called(r, h) ==
    [resolved |-> r, url |-> full_url(source, Value(r)), fetched |-> h]

\* The slip of recording the new hash without the version it belongs to.
with_hash_keeps_version(src, latest_tag, hash) ==
    IF src.version # latest_tag \/ src.hash # hash
    THEN [src EXCEPT !.hash = hash, !.latest_checked_version = latest_tag]
    ELSE [src EXCEPT !.latest_checked_version = latest_tag]

\* The slip of advancing latest_checked_version only where something is updated.
with_hash_checked_on_update(src, latest_tag, hash) ==
    IF src.version # latest_tag
    THEN [src EXCEPT !.hash = hash, !.version = latest_tag,
                     !.latest_checked_version = latest_tag]
    ELSE IF src.hash # hash
    THEN [src EXCEPT !.hash = hash, !.latest_checked_version = latest_tag]
    ELSE src

\* update.rs:226-256: the source after a successful hash fetch.
with_hash(src, latest_tag, hash) ==
    IF src.version # latest_tag
    THEN [src EXCEPT !.hash = hash, !.version = latest_tag,
                     !.latest_checked_version = latest_tag]
    ELSE IF src.hash # hash
    THEN [src EXCEPT !.hash = hash, !.latest_checked_version = latest_tag]
    ELSE [src EXCEPT !.latest_checked_version = latest_tag]

\* update.rs:226-258
LoopFetched ==
    /\ Resolving
    /\ \E r \in Resolutions :
         /\ Fetching(r)
         /\ \E h \in Fetches(r) :
              /\ h.ok
              /\ calls' = [calls EXCEPT ![name] = Called(r, h)]
              /\ sources' = [sources EXCEPT ![name] = with_hash(source, Value(r), Value(h))]
              /\ IF source.version # Value(r) \/ source.hash # Value(h)
                 THEN /\ updated' = Record(name, VersionDiff(source.version, Value(r)))
                      /\ Reported("updated")
                      /\ UNCHANGED up_to_date
                 ELSE /\ up_to_date' = up_to_date + 1
                      /\ Reported("up_to_date")
                      /\ UNCHANGED updated
    /\ changed' = TRUE
    /\ Continue
    /\ UNCHANGED <<skipped, errors>>
    /\ UNCHANGED probe

\* The slip of taking a malformed response for a failed prefetch.
is_prefetch_failed_or_malformed(err) ==
    err \in {"PrefetchFailed", "MalformedOrIncorrectJson"}

\* update.rs:262: the one hasher error that still advances latest_checked_version.
is_prefetch_failed(err) == err = "PrefetchFailed"

\* The slip of treating a failed prefetch as an update of the version.
with_prefetch_failed_bumps_version(src, latest_tag) ==
    [src EXCEPT !.latest_checked_version = latest_tag, !.version = latest_tag]

\* update.rs:269: the source after a failed prefetch of the candidate.
with_prefetch_failed(src, latest_tag) ==
    [src EXCEPT !.latest_checked_version = latest_tag]

\* update.rs:262-273
LoopPrefetchFailed ==
    /\ Resolving
    /\ \E r \in Resolutions :
         /\ Fetching(r)
         /\ \E h \in Fetches(r) :
              /\ ~h.ok /\ is_prefetch_failed(h.err)
              /\ calls' = [calls EXCEPT ![name] = Called(r, h)]
              /\ sources' = [sources EXCEPT ![name] = with_prefetch_failed(source, Value(r))]
    /\ skipped' = skipped + 1
    /\ errors' = errors + 1
    /\ Reported("error")
    /\ changed' = TRUE
    /\ Continue
    /\ UNCHANGED <<updated, up_to_date>>
    /\ UNCHANGED probe

\* The slip of recording the candidate as checked in the catch-all arm too.
LoopFetchErrorMarksChecked ==
    /\ Resolving
    /\ \E r \in Resolutions :
         /\ Fetching(r)
         /\ \E h \in Fetches(r) :
              /\ ~h.ok /\ ~is_prefetch_failed(h.err)
              /\ calls' = [calls EXCEPT ![name] = Called(r, h)]
              /\ sources' = [sources EXCEPT ![name] = with_prefetch_failed(source, Value(r))]
    /\ skipped' = skipped + 1
    /\ errors' = errors + 1
    /\ Reported("error")
    /\ Continue
    /\ UNCHANGED <<updated, changed, up_to_date>>
    /\ UNCHANGED probe

\* update.rs:274-279: any other hasher error skips the source.
LoopFetchError ==
    /\ Resolving
    /\ \E r \in Resolutions :
         /\ Fetching(r)
         /\ \E h \in Fetches(r) :
              /\ ~h.ok /\ ~is_prefetch_failed(h.err)
              /\ calls' = [calls EXCEPT ![name] = Called(r, h)]
    /\ skipped' = skipped + 1
    /\ errors' = errors + 1
    /\ Reported("error")
    /\ Continue
    /\ UNCHANGED <<sources, updated, changed, up_to_date>>
    /\ UNCHANGED probe

\* update.rs:285: the loop is over; write if anything was marked changed.
AfterLoop == pc = "loop" /\ queue = << >>

\* update.rs:285-292
will_write(chg) == chg

\* update.rs:285-286, 362 and source.rs:193-201
FinishWritten ==
    /\ AfterLoop
    /\ will_write(changed)
    /\ file' = OnDisk(sources)
    /\ writes' = writes + 1
    /\ pc' = "done"
    /\ exit' = "SUCCESS"
    /\ UNCHANGED <<args, sources, queue, updated, changed, up_to_date, skipped,
                   errors, loaded, calls, outcome, prev, run>>
    /\ UNCHANGED probe

\* update.rs:286-289 and source.rs:194-197: File::create fails; the file stays.
FinishCreateFailed ==
    /\ AfterLoop
    /\ will_write(changed)
    /\ writes' = writes + 1
    /\ pc' = "done"
    /\ exit' = "FAILURE"
    /\ UNCHANGED <<file, args, sources, queue, updated, changed, up_to_date,
                   skipped, errors, loaded, calls, outcome, prev, run>>
    /\ UNCHANGED probe

\* update.rs:286-289 and source.rs:194-200: File::create truncated the file and
\* writing the document failed.
FinishWriteFailed ==
    /\ AfterLoop
    /\ will_write(changed)
    /\ file' = Truncated
    /\ writes' = writes + 1
    /\ pc' = "done"
    /\ exit' = "FAILURE"
    /\ UNCHANGED <<args, sources, queue, updated, changed, up_to_date, skipped,
                   errors, loaded, calls, outcome, prev, run>>
    /\ UNCHANGED probe

\* update.rs:290-292, 362
FinishUnwritten ==
    /\ AfterLoop
    /\ ~will_write(changed)
    /\ pc' = "done"
    /\ exit' = "SUCCESS"
    /\ UNCHANGED <<file, args, sources, queue, updated, changed, up_to_date,
                   skipped, errors, writes, loaded, calls, outcome, prev, run>>
    /\ UNCHANGED probe

\* The process has ended; the next invocation starts from the file it left,
\* with nothing of the process's memory but what the observer noted in `prev`.
Again ==
    /\ pc = "done"
    /\ run < MaxRuns
    /\ run' = run + 1
    /\ prev' = [valid |-> TRUE, args |-> args, calls |-> calls, outcome |-> outcome,
                exit |-> exit]
    /\ pc' = "idle"
    /\ exit' = "running"
    /\ Begin(NoArgs)
    /\ sources' = << >>
    /\ queue' = << >>
    /\ loaded' = << >>
    /\ UNCHANGED file
    /\ UNCHANGED probe

Next ==
    \/ UpdateRefused
    \/ UpdateLoadFailed
    \/ UpdateLoad
    \/ LoopPin
    \/ LoopUnpin
    \/ LoopSkipPinned
    \/ LoopResolveSkip
    \/ LoopResolveAbort
    \/ LoopResolvePanic
    \/ LoopStale
    \/ LoopUrlFailed
    \/ LoopFetched
    \/ LoopPrefetchFailed
    \/ LoopFetchError
    \/ FinishWritten
    \/ FinishCreateFailed
    \/ FinishWriteFailed
    \/ FinishUnwritten

\* One invocation of `update` on any lockfile.
Spec == Init /\ [][Next]_vars

\* Up to MaxRuns invocations in a row, the remote unchanged between them.
NextTwice == Next \/ Again
SpecTwice == Init /\ [][NextTwice]_vars

\* ------------------------------------------------- the resolvers on their own
\* The state of `update`, which a call of a resolver on its own leaves alone.
update_vars == <<file, pc, args, sources, queue, updated, changed, up_to_date,
                 skipped, errors, exit, writes, loaded, calls, outcome, prev, run>>

\* The tags of a release history, and a tag that is a prefixed word.
ReleaseTags ==
    << <<"v", "1", ".", "0", ".", "0">>, <<"v", "1", ".", "2", ".", "0">>,
       <<"1", ".", "9", ".", "9">>,
       <<"v", "2", ".", "0", ".", "0", "-", "r", "c", "1">> >>
WordTags ==
    << <<"v", "e", "r", "s", "i", "o", "n", "-", "i", "n", "f", "o">> >>

\* updater.rs:171-215 called on the listing of `tags` with the filter. The
\* tags of a remote are plain and prefixed versions, a prefixed word, a tag
\* with a '/' in it, and tags that begin with a two-byte character. What
\* `git ls-remote --tags` prints for the tags is a line
\* "<hash>\trefs/tags/<tag>" for each.
ProbeFetchLatestGitTag ==
    LET LineOfTag(tag) ==
            [hash |-> <<"a", "a">>, ref |-> <<RefsSeg, TagsSeg>> \o split_path(tag, <<>>)]
        ListingOfTags(tags) == Listing([i \in 1..Len(tags) |-> LineOfTag(tags[i])])
        ProbeTags ==
            {<<"1">>, <<"v", "1">>, <<"v", "2">>, <<"v", "e">>,
             <<"r", "/", "1">>, <<"e-acute", "1">>, <<"e-acute", "a", "1">>}
        ProbeTagLists ==
            {<<>>, ReleaseTags, WordTags} \cup
            {<<t>> : t \in ProbeTags} \cup {<<t, u>> : t, u \in ProbeTags}
        ProbeFilters ==
            {None, Some(<<>>), Some(<<"v">>), Some(<<"r", "/">>), Some(<<"e-acute">>)}
    IN /\ pc = "idle"
       /\ probe = NoProbe
       /\ \E tags \in ProbeTagLists, filter \in ProbeFilters :
            probe' = [fn |-> "fetch_latest_git_tag",
                      in |-> [tags |-> tags, filter |-> filter],
                      out |-> fetch_latest_git_tag(ListingOfTags(tags), filter)]
       /\ UNCHANGED update_vars

\* updater.rs:60-78 and 131-156 called for a GitBranch source on a listing of
\* the remote's heads: for the branch names asked for, and the lengths a short
\* hash may be configured to (up to one more than a commit hash has
\* characters).
ProbeGitBranch ==
    LET ProbeBranches == {<<"m">>, <<"d">>, <<"x">>}
        ShortHashLengths == 1..(HashLen + 1)
        BranchListings == {out \in BranchOutputs : out.spawned /\ out.utf8}
    IN /\ pc = "idle"
 /\ probe = NoProbe
       /\ \E out \in BranchListings, branch \in ProbeBranches, n \in ShortHashLengths :
            LET scheme == GitBranch(Some(RepoUrl), branch, n)
                src == NewSource(<<"0">>, <<"0">>, TplGood, FALSE, scheme)
            IN probe' = [fn |-> "get_new_version_for",
                         in |-> [lines |-> out.lines, branch |-> branch,
                                 short_hash_length |-> n],
                         out |-> [commit |-> fetch_git_branch_commit(out, branch),
                                  version |-> get_new_version_for(scheme, src, out)]]
       /\ UNCHANGED update_vars

\* Templates: the placeholder once, twice, the branch placeholder alone (as
\* add.rs:386 writes it) and with the version, and a relative one.
TplTwice == <<"https://h", "/", "{version}", "/", "a-", "{version}">>
TplBoth == <<"https://h", "/", "{branch}", "/", "a-", "{version}">>

\* source.rs:114-121 called on a source for a version.
ProbeFullUrl ==
    /\ pc = "idle"
    /\ probe = NoProbe
    /\ \E tpl \in {TplGood, TplShort, TplRelative, TplTwice, TplBoth,
                    <<"https://h", "/", "o", "/", "r", "/", "archive", "/", "{branch}">>},
          scheme \in {GitTags(Some(RepoUrl), Some(<<"v">>)),
                      GitBranch(Some(RepoUrl), <<"m">>, 1), Static},
          version \in {<<"1">>, <<"2">>, <<"m", "-", "a">>} :
         LET src == NewSource(<<"1">>, <<"1">>, tpl, FALSE, scheme)
         IN probe' = [fn |-> "full_url",
                      in |-> [source |-> src, version |-> version],
                      out |-> full_url(src, version)]
    /\ UNCHANGED update_vars

\* update.rs:125-281: one pass of the loop body over a source, given what the
\* resolver (r) and the hasher (h) answer when they are asked: the source
\* after it, whether `changed` is set, how the source is counted, and the exit
\* code when the pass ends the run.
reconcile(a, src, r, h) ==
    LET pass(new, chg, how) == [src |-> new, changed |-> chg, how |-> how, end |-> "none"]
        ends(code) == [src |-> src, changed |-> FALSE, how |-> "none", end |-> code]
    IN IF a.pin
       THEN (IF src.pinned THEN pass(src, FALSE, "already")
             ELSE pass([src EXCEPT !.pinned = TRUE], TRUE, "pinned"))
       ELSE IF a.unpin
       THEN (IF ~src.pinned THEN pass(src, FALSE, "already")
             ELSE pass([src EXCEPT !.pinned = FALSE], TRUE, "unpinned"))
       ELSE IF skips_pinned(a, src) THEN pass(src, FALSE, "skipped")
       ELSE IF ~r.ok
       THEN (IF r.err = "panic" THEN ends("PANIC")
             ELSE IF is_recoverable(r.err) THEN pass(src, FALSE, "error")
             ELSE ends("FAILURE"))
       ELSE IF is_stale(a, src, Value(r)) THEN pass(src, FALSE, "up_to_date")
       ELSE IF ~full_url(src, Value(r)).ok THEN pass(src, FALSE, "error")
       ELSE IF h.ok
       THEN pass(with_hash(src, Value(r), Value(h)), TRUE,
                 IF src.version # Value(r) \/ src.hash # Value(h)
                 THEN "updated" ELSE "up_to_date")
       ELSE IF is_prefetch_failed(h.err)
       THEN pass(with_prefetch_failed(src, Value(r)), TRUE, "error")
       ELSE pass(src, FALSE, "error")

\* update.rs:120-283: the loop over the names of `order`, from the SourceMap
\* and the flag `changed` of `acc`.
RECURSIVE update_in_order(_, _, _, _)
update_in_order(a, acc, answers, order) ==
    IF order = << >> THEN acc
    ELSE LET n == Head(order)
             step == reconcile(a, acc.map[n], answers[n].r, answers[n].h)
         IN IF step.end # "none" THEN [acc EXCEPT !.end = step.end]
            ELSE update_in_order(a,
                     [map |-> [acc.map EXCEPT ![n] = step.src],
                      changed |-> acc.changed \/ step.changed,
                      report |-> IF step.how \in {"updated", "pinned", "unpinned"}
                                 THEN Append(acc.report, n) ELSE acc.report,
                      end |-> "none"],
                     answers, Tail(order))

\* update.rs:114-292, 362: a run of `update` that has loaded `map`, visits the
\* selected sources in `order` and can write the lockfile: the file it
\* leaves, whether it wrote it, its exit code and the names it reports.
update_outcome(a, map, answers, order) ==
    LET loop == update_in_order(a, [map |-> map, changed |-> FALSE, report |-> << >>,
                                    end |-> "none"], answers, order)
    IN IF loop.end # "none"
       THEN [file |-> OnDisk(map), written |-> FALSE, exit |-> loop.end,
             report |-> loop.report]
       ELSE IF will_write(loop.changed)
       THEN [file |-> OnDisk(loop.map), written |-> TRUE, exit |-> "SUCCESS",
             report |-> loop.report]
       ELSE [file |-> OnDisk(map), written |-> FALSE, exit |-> "SUCCESS",
             report |-> loop.report]

\* `update` without a name filter on a lockfile of NumSources sources, visited
\* in every order there is, each source given the same answers in each order.
ProbeUpdateOrders ==
    LET ProbeSources ==
            {NewSource(<<"1">>, <<"1">>, TplGood, FALSE, GitTags(Some(RepoUrl), Some(<<"v">>))),
             NewSource(<<"1">>, <<"2">>, TplGood, TRUE, GitTags(Some(RepoUrl), Some(<<"v">>))),
             NewSource(<<"m", "-", "a">>, <<"m", "-", "a">>, TplGood, FALSE,
                       GitBranch(Some(RepoUrl), <<"m">>, HashLen + 1)),
             NewSource(<<"1">>, <<"1">>, TplGood, FALSE, Static)}
        ResolverAnswers(src) ==
            {get_new_version_for(src.update_scheme, src, out) :
                out \in ListerOutputs(src.update_scheme)}
        HasherAnswers == {get_artifact_hash_from_url(out) : out \in NixOutputs}
        AnswersFor(map) ==
            {f \in [SourceNames ->
                      [r : UNION {ResolverAnswers(src) : src \in ProbeSources},
                       h : HasherAnswers]] :
                \A n \in SourceNames : f[n].r \in ResolverAnswers(map[n])}
        Orders(names) ==
            {q \in [1..Cardinality(names) -> names] :
                \A i, j \in DOMAIN q : q[i] = q[j] => i = j}
    IN /\ pc = "idle"
 /\ probe = NoProbe
       /\ \E map \in [SourceNames -> ProbeSources], a \in ArgsSet :
            /\ ~refuses(a)
            /\ a.source_names = {}
            /\ \E answers \in AnswersFor(map) :
                 probe' = [fn |-> "update",
                           in |-> [map |-> map, args |-> a, answers |-> answers],
                           out |-> [order \in Orders({n \in SourceNames : selected(a, n)})
                                      |-> update_outcome(a, map, answers, order)]]
       /\ UNCHANGED update_vars

InitProbe == Init /\ file = OnDisk(<< >>)
NextProbe ==
    \/ ProbeFetchLatestGitTag
    \/ ProbeGitBranch
    \/ ProbeFullUrl
    \/ ProbeUpdateOrders

\* One call of a resolver, of the URL builder or of the loop of `update` on
\* inputs of its own.
SpecProbe == InitProbe /\ [][NextProbe]_vars

\* --------------------------------------------------------------------- add
\* Source names are modelled by their rank in the BTreeMap's order; these are
\* the path segments they are spelled as, in that order.
NameSegments == << <<"o">>, <<"r">> >>
NameOfSegment(seg) == CHOOSE n \in 1..Len(NameSegments) : NameSegments[n] = seg

\* str::trim_end_matches(".git")
RECURSIVE trim_end_matches_git(_)
trim_end_matches_git(s) ==
    IF s # <<>> /\ Last(s) = ".git"
    THEN trim_end_matches_git(SubSeq(s, 1, Len(s) - 1))
    ELSE s

\* add.rs:319, 404: the short hash length of a git-branch source given none.
DefaultShortHashLen == 6

\* UpdateSchemeArg (add.rs:26-82), one record shape for the three subcommands.
GitTagsArg(artifact_url, version, source_name, git_repo, tag_prefix, unpack) ==
    [type |-> "git-tags", artifact_url |-> Some(artifact_url), version |-> version,
     source_name |-> source_name, git_repo |-> git_repo, tag_prefix |-> tag_prefix,
     branch |-> <<>>, short_hash_len |-> None, provider |-> None, unpack |-> unpack]
GitBranchArg(repository, branch, source_name, short_hash_len, artifact_url, provider) ==
    [type |-> "git-branch", artifact_url |-> artifact_url, version |-> None,
     source_name |-> source_name, git_repo |-> Some(repository), tag_prefix |-> None,
     branch |-> branch, short_hash_len |-> short_hash_len, provider |-> provider,
     unpack |-> TRUE]
StaticArg(source_name, artifact_url, version, unpack) ==
    [type |-> "static", artifact_url |-> Some(artifact_url), version |-> Some(version),
     source_name |-> Some(source_name), git_repo |-> None, tag_prefix |-> None,
     branch |-> <<>>, short_hash_len |-> None, provider |-> None, unpack |-> unpack]

\* add.rs:41, 55: --git-repo and REPOSITORY are parsed into a Url by clap; the
\* Url holds the argument normalised.
parsed_git_repo(a) ==
    IF a.git_repo = None THEN None ELSE Some(Url_as_str(a.git_repo[1]))

\* add.rs:213-222, 283-287: the repository of a git-tags source.
arg_git_url(a) ==
    IF a.git_repo # None THEN Ok(parsed_git_repo(a)[1])
    ELSE infer_git_url(a.artifact_url[1])

\* add.rs:212-246. `expect` on path_segments panics for a URL that cannot be
\* a base.
build_source_name(a) ==
    IF a.type = "static" THEN Ok(a.source_name[1])
    ELSE LET git_url == arg_git_url(a) IN
         IF ~git_url.ok THEN Err("GetGitUrlFailed")
         ELSE IF a.source_name # None THEN Ok(a.source_name[1])
         ELSE LET segs == path_segments(Value(git_url)) IN
              IF segs = None THEN Err("panic")
              ELSE IF a.type = "git-tags" THEN Ok(NameOfSegment(Last(segs[1])))
              ELSE Ok(NameOfSegment(trim_end_matches_git(Last(segs[1]))))

\* add.rs:272-325, given what the lister prints for the repository.
build_initial_version(a, out) ==
    IF a.type = "static" THEN Ok(a.version[1])
    ELSE IF a.type = "git-tags"
    THEN IF ~arg_git_url(a).ok THEN Err("GetGitUrl")
         ELSE IF a.version # None THEN Ok(a.version[1])
         ELSE LET r == fetch_latest_git_tag(out, a.tag_prefix) IN
              IF r.ok THEN r
              ELSE IF r.err = "NoTagsFitFilter" THEN Err("NoTagsFitPrefix")
              ELSE Err("FetchTags")
    ELSE LET r == fetch_git_branch_commit(out, a.branch)
             n == IF a.short_hash_len = None THEN DefaultShortHashLen
                  ELSE a.short_hash_len[1]
         IN IF ~r.ok
            THEN (IF r.err = "BranchNotFound" THEN Err("BranchNotFound")
                  ELSE Err("FetchBranchCommit"))
            ELSE IF Len(Value(r)) < n THEN Err("panic")
            ELSE Ok(a.branch \o <<"-">> \o SubSeq(Value(r), 1, n))

\* source.rs:49-64
Source_new(version, artifact_url_template, update_scheme) ==
    [version |-> version, latest_checked_version |-> version,
     artifact_url_template |-> artifact_url_template, git_url |-> None, hash |-> "",
     tag_prefix_filter |-> None, unpack |-> FALSE, pinned |-> FALSE,
     update_scheme |-> update_scheme]

\* add.rs:166: Source::with_pinned
with_pinned(src, pinned) == [src EXCEPT !.pinned = pinned]

\* add.rs:366-400: the template `add` writes for a git-branch source that is
\* given no artifact URL. The hosts of the model end with neither github.com
\* nor gitlab.com, so the provider inferred is Gitea.
branch_artifact_url(a) ==
    LET repository == parsed_git_repo(a)[1]
        repository_str == trim_end_matches_git(repository)
        segs == path_segments(repository)
    IN IF a.artifact_url # None THEN Ok(a.artifact_url[1])
       ELSE IF a.provider = None /\ repository[1] \in NoBaseTokens
       THEN Err("GitRepoUrlNoBase")
       ELSE IF a.provider # Some("Gitlab")
       THEN Ok(repository_str \o <<"/", "archive", "/", "{branch}", ".tar.gz">>)
       ELSE IF segs = None THEN Err("GetRepositoryName")
       ELSE Ok(repository_str \o <<"/", "-", "/", "archive", "/", "{branch}", "/">>
               \o trim_end_matches_git(Last(segs[1]))
               \o <<"-", "{branch}", ".tar.gz">>)

\* add.rs:335-424
build_source(a, version) ==
    IF a.type = "git-tags"
    THEN Ok(Source_new(version, a.artifact_url[1],
                       [GitTags(parsed_git_repo(a), a.tag_prefix)
                           EXCEPT !.unpack = a.unpack]))
    ELSE IF a.type = "static"
    THEN Ok(Source_new(version, a.artifact_url[1], [Static EXCEPT !.unpack = a.unpack]))
    ELSE LET artifact_url == branch_artifact_url(a)
             n == IF a.short_hash_len = None THEN DefaultShortHashLen
                  ELSE a.short_hash_len[1]
         IN IF ~artifact_url.ok THEN artifact_url
            ELSE Ok(Source_new(version, Value(artifact_url),
                               GitBranch(parsed_git_repo(a), a.branch, n)))

add_plan_overwrites(map, a, out) ==
    LET source_name == build_source_name(a.update_scheme)
        initial_version == build_initial_version(a.update_scheme, out)
        built == build_source(a.update_scheme, Value(initial_version))
        ended(code, why) ==
            [go |-> FALSE, exit |-> code, why |-> why, source_name |-> source_name,
             resolved |-> IF why \in {"build_initial_version", "build_source"}
                          THEN initial_version ELSE NotCalled]
    IN IF ~source_name.ok
       THEN (IF source_name.err = "panic" THEN ended("PANIC", "build_source_name")
             ELSE ended("FAILURE", "build_source_name"))
       ELSE IF ~initial_version.ok
       THEN (IF initial_version.err = "panic"
             THEN ended("PANIC", "build_initial_version")
             ELSE ended("FAILURE", "build_initial_version"))
       ELSE IF ~built.ok THEN ended("FAILURE", "build_source")
       ELSE [go |-> TRUE, source_name |-> Value(source_name),
             initial_version |-> Value(initial_version),
             new_source |-> with_pinned(Value(built), a.pinned)]

\* add.rs:110-171: what `add` has when it comes to the hash, or how it ended
\* before and what build_initial_version (add.rs:141) had given by then: the
\* name, the initial version and the source built, given the map
\* loaded and what the lister prints.
add_plan(map, a, out) ==
    LET source_name == build_source_name(a.update_scheme)
        initial_version == build_initial_version(a.update_scheme, out)
        built == build_source(a.update_scheme, Value(initial_version))
        ended(code, why) ==
            [go |-> FALSE, exit |-> code, why |-> why, source_name |-> source_name,
             resolved |-> IF why \in {"build_initial_version", "build_source"}
                          THEN initial_version ELSE NotCalled]
    IN IF ~source_name.ok
       THEN (IF source_name.err = "panic" THEN ended("PANIC", "build_source_name")
             ELSE ended("FAILURE", "build_source_name"))
       ELSE IF Value(source_name) \in DOMAIN map THEN ended("FAILURE", "exists")
       ELSE IF ~initial_version.ok
       THEN (IF initial_version.err = "panic"
             THEN ended("PANIC", "build_initial_version")
             ELSE ended("FAILURE", "build_initial_version"))
       ELSE IF ~built.ok THEN ended("FAILURE", "build_source")
       ELSE [go |-> TRUE, source_name |-> Value(source_name),
             initial_version |-> Value(initial_version),
             new_source |-> with_pinned(Value(built), a.pinned)]

\* AddArgs (add.rs:13-24). clap has parsed the artifact URL of a git-tags or
\* static source as a URL (validate_artifact_url); that of a git-branch source
\* it takes as it is, and not together with a provider. The commands are those
\* that differ in what the name is built from, those that differ in what the
\* initial version is built from, and those that differ in what is stored.
AddArgsSet ==
    LET RepoUrlO == <<"https://h", "/", "r", "/", "o">>
        RepoUrlGit == <<"https://h", "/", "o", "/", "r", ".git">>
        MailUrl == <<"mailto:", "x">>
        Named ==
            {GitTagsArg(t, Some(<<"1">>), n, g, None, FALSE) :
                t \in {TplGood, TplShort}, n \in {None, Some(1)},
                g \in {None, Some(RepoUrlO), Some(MailUrl)}} \cup
            {GitBranchArg(g, <<"m">>, n, Some(1), x[1], x[2]) :
                g \in {RepoUrl, RepoUrlGit, MailUrl}, n \in {None, Some(1)},
                x \in {<<None, None>>, <<Some(TplBoth), None>>,
                       <<None, Some("Gitlab")>>}} \cup
            {StaticArg(n, TplGood, <<"1">>, FALSE) : n \in SourceNames}
        Versioned ==
            {GitTagsArg(TplGood, None, None, g, f, FALSE) :
                g \in {None, Some(RepoUrlO)}, f \in {None, Some(<<"v">>)}} \cup
            {GitBranchArg(RepoUrl, b, None, l, None, None) :
                b \in {<<"m">>, <<"x">>}, l \in {None, Some(1), Some(HashLen + 1)}}
        Stored ==
            {GitTagsArg(TplGood, Some(<<"1">>), Some(1), g, f, TRUE) :
                g \in {None, Some(RepoUrlO)}, f \in {None, Some(<<"v">>)}} \cup
            {StaticArg(1, TplGood, <<"1">>, TRUE)}
    IN {[cmd |-> "add", force_hash |-> h, pinned |-> FALSE, update_scheme |-> a] :
           h \in {None, Some("h2")}, a \in Named \cup Versioned} \cup
       {[cmd |-> "add", force_hash |-> h, pinned |-> p, update_scheme |-> a] :
           h \in {None, Some("h2")}, p \in BOOLEAN, a \in Stored}

\* BTreeMap::insert and BTreeMap::remove
Insert(map, key, value) ==
    [n \in DOMAIN map \cup {key} |-> IF n = key THEN value ELSE map[n]]
Remove_first(map, key) == [n \in DOMAIN map \ {key, 1} |-> map[n]]
Remove(map, key) == [n \in DOMAIN map \ {key} |-> map[n]]

\* A command other than `update` runs from start to end in one step; it
\* leaves its arguments in `args`, the map it loaded in `loaded`, the map it
\* had in memory at the end in `sources`.
CommandRuns(a) ==
    /\ pc = "idle"
    /\ pc' = "done"
    /\ args' = a
    /\ UNCHANGED <<queue, updated, changed, up_to_date, skipped, errors, outcome,
                   prev, run, probe>>

\* The command ends with `code` before any write.
CommandEnds(code, map) ==
    /\ exit' = code
    /\ loaded' = map
    /\ sources' = map
    /\ UNCHANGED <<file, writes>>

\* -------------------------------------------------------------------- init
\* init(source_file_path) takes no argument but the path.
\* init.rs:7-17: File::create_new fails, as it does whenever there is a file
\* at the path; whatever is there stays, and the exit code is FAILURE.
InitCreateFailed ==
    /\ pc = "idle"
    /\ CommandRuns([cmd |-> "init"])
    /\ exit' = "FAILURE"
    /\ writes' = writes + 1
    /\ UNCHANGED <<file, sources, loaded, calls>>

\* init.rs:7-8, 19-24: there was no file, the file is created and "{}", the
\* empty SourceMap, is written to it.
InitCreated ==
    /\ pc = "idle"
    /\ ~file.present
    /\ CommandRuns([cmd |-> "init"])
    /\ file' = OnDisk(<< >>)
    /\ exit' = "SUCCESS"
    /\ writes' = writes + 1
    /\ UNCHANGED <<sources, loaded, calls>>

\* init.rs:19-21: the file is created and write_all fails; the file is there
\* and holds no document.
InitWriteFailed ==
    /\ pc = "idle"
    /\ ~file.present
    /\ CommandRuns([cmd |-> "init"])
    /\ file' = Truncated
    /\ exit' = "FAILURE"
    /\ writes' = writes + 1
    /\ UNCHANGED <<sources, loaded, calls>>

AddLister(a) ==
    IF a.update_scheme.type = "git-branch" THEN BranchOutputs ELSE TagOutputs

\* add.rs:104-110
AddLoadFailed ==
    /\ pc = "idle"
    /\ ~file.json
    /\ \E a \in AddArgsSet : CommandRuns(a)
    /\ CommandEnds("FAILURE", << >>)
    /\ calls' = NoCalls

\* add.rs:112-171: no name, a name that exists, no initial version, or no
\* source; a failed `expect` or an out-of-range slice crashes the process.
\* Past the check of the name (add.rs:121-139) build_initial_version has run,
\* and with it the lister where the scheme asks it for the version.
AddEndedEarly ==
    /\ pc = "idle"
    /\ file.json
    /\ \E a \in AddArgsSet : \E out \in AddLister(a) :
         LET plan == add_plan(file.map, a, out) IN
         /\ ~plan.go
         /\ CommandRuns(a)
         /\ CommandEnds(plan.exit, file.map)
         /\ calls' = IF plan.resolved = NotCalled THEN NoCalls
                      ELSE [NoCalls EXCEPT ![Value(plan.source_name)].resolved =
                                              plan.resolved]

\* What `add` came to the hash with.
AddPlans(a) ==
    {plan \in {add_plan(file.map, a, out) : out \in AddLister(a)} : plan.go}

\* add.rs:173-191: the hash forced, or the calls made for it.
AddHashing(a, plan) ==
    LET url == full_url(plan.new_source, plan.initial_version) IN
    IF a.force_hash # None
    THEN {[url |-> NotCalled, fetched |-> NotCalled]}
    ELSE IF ~url.ok THEN {[url |-> url, fetched |-> NotCalled]}
    ELSE {[url |-> url, fetched |-> get_artifact_hash_from_url(out)] : out \in NixOutputs}

AddCalled(plan, h) ==
    [NoCalls EXCEPT ![plan.source_name] =
        [resolved |-> Ok(plan.initial_version), url |-> h.url, fetched |-> h.fetched]]

\* add.rs:176-190: the URL does not parse, or the hasher fails.
AddHashFailed ==
    /\ pc = "idle"
    /\ file.json
    /\ \E a \in AddArgsSet : \E plan \in AddPlans(a) : \E h \in AddHashing(a, plan) :
         /\ a.force_hash = None
         /\ ~h.fetched.ok
         /\ CommandRuns(a)
         /\ calls' = AddCalled(plan, h)
    /\ CommandEnds("FAILURE", file.map)

\* add.rs:173-193: `add` has a source to insert, and inserts it with its hash.
AddInserts(written) ==
    /\ pc = "idle"
    /\ file.json
    /\ \E a \in AddArgsSet : \E plan \in AddPlans(a) : \E h \in AddHashing(a, plan) :
         LET hash == IF a.force_hash # None THEN a.force_hash[1] ELSE Value(h.fetched)
             inserted == Insert(file.map, plan.source_name,
                                [plan.new_source EXCEPT !.hash = hash])
         IN /\ a.force_hash # None \/ h.fetched.ok
            /\ CommandRuns(a)
            /\ calls' = AddCalled(plan, h)
            /\ sources' = inserted
            /\ written => file' = OnDisk(inserted)
    /\ loaded' = file.map
    /\ writes' = writes + 1

\* add.rs:193-201 and source.rs:193-201
AddWritten ==
    /\ AddInserts(TRUE)
    /\ exit' = "SUCCESS"

\* File::create fails; the file stays.
AddCreateFailed ==
    /\ AddInserts(FALSE)
    /\ exit' = "FAILURE"
    /\ UNCHANGED file

\* File::create truncated the file and writing the document failed.
AddWriteFailed ==
    /\ AddInserts(FALSE)
    /\ exit' = "FAILURE"
    /\ file' = Truncated

\* ------------------------------------------------------------------ delete
\* delete(source_file_path, source_name); `exit` holds the Result returned.
DeleteArgsSet == {[cmd |-> "delete", source_name |-> n] : n \in SourceNames}

\* delete.rs:27-42: the file does not open or does not parse.
DeleteLoadFailed ==
    /\ pc = "idle"
    /\ ~file.json
    /\ \E a \in DeleteArgsSet : CommandRuns(a)
    /\ CommandEnds("ReadError", << >>)
    /\ calls' = NoCalls

\* delete.rs:44-46
DeleteNonexistent ==
    /\ pc = "idle"
    /\ file.json
    /\ \E a \in DeleteArgsSet :
         /\ a.source_name \notin DOMAIN file.map
         /\ CommandRuns(a)
    /\ CommandEnds("SourceNameNonexistent", file.map)
    /\ calls' = NoCalls

\* delete.rs:44-58: the name is removed and the file created anew.
DeleteRemoves(written) ==
    /\ pc = "idle"
    /\ file.json
    /\ \E a \in DeleteArgsSet :
         /\ a.source_name \in DOMAIN file.map
         /\ CommandRuns(a)
         /\ sources' = Remove(file.map, a.source_name)
         /\ written => file' = OnDisk(Remove(file.map, a.source_name))
    /\ loaded' = file.map
    /\ writes' = writes + 1
    /\ calls' = NoCalls

DeleteWritten ==
    /\ DeleteRemoves(TRUE)
    /\ exit' = "Ok"

\* delete.rs:48-51: File::create fails; the file stays.
DeleteCreateFailed ==
    /\ DeleteRemoves(FALSE)
    /\ exit' = "WriteError"
    /\ UNCHANGED file

\* delete.rs:53-59: the file is created, and writing the document fails.
DeleteWriteFailed ==
    /\ DeleteRemoves(FALSE)
    /\ exit' = "WriteError"
    /\ file' = Truncated

\* -------------------------------------------------------------------- edit
\* The field each EditableSourceKey (edit.rs:10-16) names.
KeyField(source_key) ==
    IF source_key = "tag_prefix" THEN "tag_prefix_filter" ELSE source_key

\* <bool as FromStr>::from_str: the words `true` and `false` and no other.
parse_bool(value) ==
    IF value = <<"true">> THEN Ok(TRUE)
    ELSE IF value = <<"false">> THEN Ok(FALSE)
    ELSE Err("ParseBoolError")

\* Source::set_git_url, as edit.rs:73-77 calls it.
set_git_url(src, git_url) == [src EXCEPT !.git_url = git_url]

\* The slip of taking an empty value as no change to an optional field.
edit_value_ignores_empty(src, source_key, value) ==
    IF source_key = "pinned"
    THEN (IF parse_bool(value).ok
          THEN Ok([src EXCEPT !.pinned = Value(parse_bool(value))])
          ELSE Err("invalid"))
    ELSE IF source_key = "artifact_url_template"
    THEN (IF Url_parse(value).ok THEN Ok([src EXCEPT !.artifact_url_template = value])
          ELSE Err("invalid"))
    ELSE IF source_key = "git_url"
    THEN (IF value = <<>> THEN Ok(src)
          ELSE IF Url_parse(value).ok
          THEN Ok(set_git_url(src, Some(Url_as_str(Value(Url_parse(value))))))
          ELSE Err("invalid"))
    ELSE IF source_key = "tag_prefix"
    THEN (IF value = <<>> THEN Ok(src)
          ELSE Ok([src EXCEPT !.tag_prefix_filter = Some(value)]))
    ELSE (IF parse_bool(value).ok
          THEN Ok([src EXCEPT !.unpack = Value(parse_bool(value))])
          ELSE Err("invalid"))

\* edit.rs:56-99: the source with the value given for the key, or the error.
edit_value(src, source_key, value) ==
    IF source_key = "pinned"
    THEN (IF parse_bool(value).ok
          THEN Ok([src EXCEPT !.pinned = Value(parse_bool(value))])
          ELSE Err("invalid"))
    ELSE IF source_key = "artifact_url_template"
    THEN (IF Url_parse(value).ok THEN Ok([src EXCEPT !.artifact_url_template = value])
          ELSE Err("invalid"))
    ELSE IF source_key = "git_url"
    THEN (IF value = <<>> THEN Ok(set_git_url(src, None))
          ELSE IF Url_parse(value).ok
          THEN Ok(set_git_url(src, Some(Url_as_str(Value(Url_parse(value))))))
          ELSE Err("invalid"))
    ELSE IF source_key = "tag_prefix"
    THEN (IF value = <<>> THEN Ok([src EXCEPT !.tag_prefix_filter = None])
          ELSE Ok([src EXCEPT !.tag_prefix_filter = Some(value)]))
    ELSE (IF parse_bool(value).ok
          THEN Ok([src EXCEPT !.unpack = Value(parse_bool(value))])
          ELSE Err("invalid"))

\* edit.rs:34-39, with EditableSourceKey (edit.rs:10-16). The values `edit`
\* is given: words, URLs with and without a scheme, a prefix, and the empty
\* string.
EditArgsSet ==
    LET EditableSourceKeys ==
            {"pinned", "artifact_url_template", "git_url", "tag_prefix", "unpack"}
        EditValues ==
            {<<"true">>, <<"false">>, <<"True">>, <<>>, <<"v">>,
             TplShort, TplRelative, RepoUrl, <<"https://h">>}
    IN {[cmd |-> "edit", source_name |-> n, source_key |-> k, value |-> v] :
           n \in SourceNames, k \in EditableSourceKeys, v \in EditValues}

\* edit.rs:40-46
EditLoadFailed ==
    /\ pc = "idle"
    /\ ~file.json
    /\ \E a \in EditArgsSet : CommandRuns(a)
    /\ CommandEnds("FAILURE", << >>)
    /\ calls' = NoCalls

\* edit.rs:48-54
EditNonexistent ==
    /\ pc = "idle"
    /\ file.json
    /\ \E a \in EditArgsSet :
         /\ a.source_name \notin DOMAIN file.map
         /\ CommandRuns(a)
    /\ CommandEnds("FAILURE", file.map)
    /\ calls' = NoCalls

\* edit.rs:56-99: the value is not one the key takes.
EditInvalid ==
    /\ pc = "idle"
    /\ file.json
    /\ \E a \in EditArgsSet :
         /\ a.source_name \in DOMAIN file.map
         /\ ~edit_value(file.map[a.source_name], a.source_key, a.value).ok
         /\ CommandRuns(a)
    /\ CommandEnds("FAILURE", file.map)
    /\ calls' = NoCalls

\* edit.rs:56-101: the field is set and the map written.
EditSets(written) ==
    /\ pc = "idle"
    /\ file.json
    /\ \E a \in EditArgsSet :
         /\ a.source_name \in DOMAIN file.map
         /\ LET edited == edit_value(file.map[a.source_name], a.source_key, a.value)
                map == [file.map EXCEPT ![a.source_name] = Value(edited)]
            IN /\ edited.ok
               /\ CommandRuns(a)
               /\ sources' = map
               /\ written => file' = OnDisk(map)
    /\ loaded' = file.map
    /\ writes' = writes + 1
    /\ calls' = NoCalls

\* edit.rs:101-115
EditWritten ==
    /\ EditSets(TRUE)
    /\ exit' = "SUCCESS"

EditCreateFailed ==
    /\ EditSets(FALSE)
    /\ exit' = "FAILURE"
    /\ UNCHANGED file

EditWriteFailed ==
    /\ EditSets(FALSE)
    /\ exit' = "FAILURE"
    /\ file' = Truncated

\* The process has ended; the next command starts from the file it left.
CommandAgain ==
    /\ pc = "done"
    /\ run < MaxRuns
    /\ run' = run + 1
    /\ pc' = "idle"
    /\ exit' = "running"
    /\ Begin(NoArgs)
    /\ sources' = << >>
    /\ queue' = << >>
    /\ loaded' = << >>
    /\ UNCHANGED <<file, prev, probe>>

\* The lockfiles the commands are run on first. The first source has the
\* git_url and the tag_prefix_filter `edit` sets, the second a
\* short_hash_length above the length of a hash, the third a template that is
\* no URL.
InitCommands ==
    LET CommandSources ==
            {[NewSource(<<"1">>, <<"1">>, TplGood, FALSE,
                        GitTags(Some(RepoUrl), Some(<<"v">>)))
                EXCEPT !.git_url = Some(RepoUrl), !.tag_prefix_filter = Some(<<"v">>)],
             NewSource(<<"m", "-", "a">>, <<"m", "-", "b">>, TplGood, FALSE,
                       GitBranch(Some(RepoUrl), <<"m">>, HashLen + 1)),
             NewSource(<<"1">>, <<"1">>, TplRelative, TRUE, Static)}
        CommandLockfiles == UNION {[d -> CommandSources] : d \in SUBSET SourceNames}
    IN InitWith({OnDisk(m) : m \in CommandLockfiles} \cup {Truncated, NoFile})

NextCommands ==
    \/ InitCreateFailed
    \/ InitCreated
    \/ InitWriteFailed
    \/ AddLoadFailed
    \/ AddEndedEarly
    \/ AddHashFailed
    \/ AddWritten
    \/ AddCreateFailed
    \/ AddWriteFailed
    \/ DeleteLoadFailed
    \/ DeleteNonexistent
    \/ DeleteWritten
    \/ DeleteCreateFailed
    \/ DeleteWriteFailed
    \/ EditLoadFailed
    \/ EditNonexistent
    \/ EditInvalid
    \/ EditWritten
    \/ EditCreateFailed
    \/ EditWriteFailed
    \/ Next
    \/ CommandAgain

\* Invocations of `init`, `add`, `delete`, `edit` and `update`, one after
\* another, on a path where a lockfile, a file that is no lockfile, or no file
\* is.
SpecCommands == InitCommands /\ [][NextCommands]_vars

\* ------------------------------------------------------------------ claims
\* What the run has made of source n so far, against what it loaded.
Visited(n) == pc \in {"loop", "done"} /\ n \in DOMAIN loaded
Unchanged(n) == sources[n] = loaded[n]
HashFetched(n) == calls[n].fetched.ok
FetchFailedWith(n, e) == calls[n].fetched = Err(e)

\* C1: every step that changes a source's version sets, in the same step, its
\* hash to the hash the hasher returned for the URL of the new version; the
\* version changes in no step without a successful fetch for that candidate,
\* and in no step that counts an error or ends the run in failure.
C1_VersionWithHash ==
    [][\A n \in SourceNames :
         (/\ pc = "loop" /\ pc' \in {"loop", "done"}
          /\ n \in DOMAIN sources
          /\ sources'[n].version # sources[n].version)
         => /\ calls[n] = NoCall
            /\ calls'[n].resolved = Ok(sources'[n].version)
            /\ calls'[n].url = full_url(sources[n], sources'[n].version)
            /\ calls'[n].url.ok
            /\ calls'[n].fetched = Ok(sources'[n].hash)
            /\ errors' = errors
            /\ exit' # "FAILURE"]_vars

C1_Witness ==
    \E n \in SourceNames :
        /\ Visited(n)
        /\ sources[n].version # loaded[n].version
        /\ sources[n].hash # loaded[n].hash

\* C2: a step in which the hash fetch fails with PrefetchFailed leaves the
\* source's version and hash as they were, sets latest_checked_version to the
\* candidate, counts one skipped and one error, and goes on with the loop.
C2_FailedPrefetchStep ==
    \A n \in SourceNames :
        (/\ pc = "loop"
         /\ calls[n].fetched = NotCalled
         /\ calls'[n].fetched = Err("PrefetchFailed"))
        => /\ sources'[n].version = sources[n].version
           /\ sources'[n].hash = sources[n].hash
           /\ sources'[n].latest_checked_version = Value(calls'[n].resolved)
           /\ skipped' = skipped + 1
           /\ errors' = errors + 1
           /\ pc' = "loop"
           /\ queue' = Tail(queue)

\* The source's prefetch failed in the previous invocation, and this one,
\* run without --refetch, resolved the same candidate.
FailedBefore(n) ==
    /\ prev.valid
    /\ prev.calls[n].fetched = Err("PrefetchFailed")
    /\ Visited(n)
    /\ ~args.refetch
    /\ calls[n].resolved = prev.calls[n].resolved

\* C2 as claimed: ... and a later run without refetch that resolves the same
\* candidate fetches no hash for that source.
C2_LaterRunOriginal ==
    \A n \in SourceNames : FailedBefore(n) => calls[n].fetched = NotCalled

C2_Original == [][C2_FailedPrefetchStep]_vars /\ []C2_LaterRunOriginal

\* C2 as amended: ... and a later run without refetch that starts from the
\* lockfile the failing run wrote and resolves the same candidate builds no
\* URL and fetches no hash for that source, unless its scheme is Static.
C2_LaterRunAmended ==
    \A n \in SourceNames :
        (/\ FailedBefore(n)
         /\ prev.exit = "SUCCESS"
         /\ ~is_static(loaded[n].update_scheme))
        => calls[n].url = NotCalled /\ calls[n].fetched = NotCalled

C2_PrefetchFailed == [][C2_FailedPrefetchStep]_vars /\ []C2_LaterRunAmended

\* A second run passed over a source whose prefetch failed in the first, with
\* another source visited after the failing one in the first run.
C2_Witness ==
    \E n \in SourceNames :
        /\ FailedBefore(n)
        /\ prev.exit = "SUCCESS"
        /\ ~is_static(loaded[n].update_scheme)
        /\ loaded[n].latest_checked_version # loaded[n].version
        /\ \E m \in SourceNames : m > n /\ prev.calls[m].resolved # NotCalled
        /\ pc = "done"

\* The loop ran to its end (no return from inside it).
LoopCompleted == pc = "done" /\ queue = << >> /\ loaded # << >>
PinRun == args.pin \/ args.unpin

\* C3 as claimed: a source pinned at the start of a run without --force has
\* every field at the end as at the start, and (when selected, in a run that
\* is not aborted) is counted as skipped and not as an error.
C3_Original ==
    \A n \in SourceNames :
        (pc = "done" /\ n \in DOMAIN loaded /\ loaded[n].pinned /\ ~args.force)
        => /\ Unchanged(n)
           /\ LoopCompleted /\ selected(args, n) => outcome[n] = "skipped"

\* C3 as amended: a source pinned at the start of a run with none of --force,
\* --pin, --unpin has every field as at the start, throughout the run and in
\* the lockfile the run writes; the loop, when it visits the source, counts it
\* as skipped and not as an error, and it visits every selected source unless
\* the run is aborted.
C3_PinnedKept ==
    \A n \in SourceNames :
        (Visited(n) /\ loaded[n].pinned /\ ~args.force /\ ~PinRun)
        => /\ Unchanged(n)
           /\ writes > 0 /\ exit = "SUCCESS" => file.map[n] = loaded[n]
           /\ outcome[n] \in {"none", "skipped"}
           /\ calls[n] = NoCall
           /\ LoopCompleted /\ selected(args, n) => outcome[n] = "skipped"

C3_SkipStep ==
    (InLoop /\ source.pinned /\ ~args.force /\ ~PinRun)
    => /\ outcome'[name] = "skipped"
       /\ skipped' = skipped + 1
       /\ errors' = errors
       /\ up_to_date' = up_to_date
       /\ updated' = updated

C3_PinInvariant == []C3_PinnedKept /\ [][C3_SkipStep]_vars

\* A pinned source was skipped in a run that updated another source and wrote.
C3_Witness ==
    \E n, m \in SourceNames :
        /\ LoopCompleted /\ ~args.force /\ ~PinRun
        /\ n \in DOMAIN loaded /\ loaded[n].pinned /\ outcome[n] = "skipped"
        /\ outcome[m] = "updated"
        /\ writes = 1 /\ exit = "SUCCESS"

\* The second of two consecutive runs with the same flags and name filter,
\* the remote answering as in the first, its loop run to the end.
SecondRun == prev.valid /\ args = prev.args /\ pc \in {"loop", "done"} /\ loaded # << >>

\* C4 as claimed: in the second run every selected source is reported up to
\* date, and the lockfile after it is the lockfile after the first run.
C4_Original ==
    (SecondRun /\ LoopCompleted)
    => /\ \A n \in DOMAIN loaded :
            selected(args, n) => outcome[n] \in {"up_to_date", "already"}
       /\ file.json => file.map = loaded

\* C4 as amended: when the first run exited successfully, the second run
\* changes no field of any source and reports no source as updated, it is not
\* aborted, every selected source is reported up to date, or skipped as pinned,
\* or skipped with the error the same calls gave in the first run, and the
\* lockfile after the second run (if its write does not fail) is the lockfile
\* after the first run.
C4_Idempotent ==
    (SecondRun /\ prev.exit = "SUCCESS")
    => /\ sources = loaded
       /\ updated = << >>
       /\ pc = "done" => queue = << >>
       /\ file.json => file.map = loaded
       /\ \A n \in DOMAIN loaded :
            /\ outcome[n] \in {"none", "up_to_date", "already", "skipped", "error"}
            /\ LoopCompleted /\ selected(args, n) => outcome[n] # "none"
            /\ outcome[n] = "skipped" => loaded[n].pinned /\ ~args.force
            /\ outcome[n] = "error" =>
                 prev.outcome[n] = "error" /\ calls[n] = prev.calls[n]

\* A second run found up to date what the first had updated, and met again
\* the error of the first at another source.
C4_Witness ==
    /\ SecondRun /\ LoopCompleted /\ prev.exit = "SUCCESS"
    /\ \E n, m \in DOMAIN loaded :
         /\ prev.outcome[n] = "updated" /\ outcome[n] = "up_to_date"
         /\ calls[n].fetched.ok
         /\ outcome[m] = "error"

\* C5: `update` writes the lockfile if and only if some field of some source
\* changed during the run, and at most once.
C5_WritesIffChanged ==
    /\ writes <= 1
    /\ (LoopCompleted /\ exit = "SUCCESS") => (writes = 1 <=> sources # loaded)

\* C6: a resolver error other than the two recoverable ones ends the run at
\* that source: no later source is visited, nothing is written (the file is
\* as before the run, whatever was updated in memory), the exit code is
\* non-zero.
ResolverFatal(n) ==
    /\ Visited(n)
    /\ calls[n].resolved \in {Err("FetchGitTags"), Err("FetchBranchCommit")}

C6_ResolverAbort ==
    \A n \in SourceNames :
        ResolverFatal(n)
        => /\ pc = "done"
           /\ exit = "FAILURE"
           /\ writes = 0
           /\ file = OnDisk(loaded)
           /\ queue # << >> /\ Head(queue) = n
           /\ outcome[n] = "none"
           /\ \A m \in DOMAIN loaded :
                m > n => outcome[m] = "none" /\ calls[m] = NoCall /\ Unchanged(m)

\* The run was aborted at the second source after updating the first in memory.
C6_Witness ==
    \E n, m \in SourceNames :
        /\ ResolverFatal(n)
        /\ m < n /\ outcome[m] = "updated" /\ ~Unchanged(m)
        /\ file = OnDisk(loaded)

\* C7: a step in which resolving fails with a recoverable error (no repository
\* URL, or no tag fits the filter) changes no source, counts one skipped and
\* one error, and leaves the loop where it would be had the source not been
\* selected: same sources, same `changed` and report, the rest of the queue.
RecoverableErrs == {Err("GetGitUrl"), Err("FetchGitTags:NoTagsFitFilter")}

C7_RecoverableStep ==
    (InLoop /\ calls'[name].resolved \in RecoverableErrs)
    => /\ sources' = sources
       /\ skipped' = skipped + 1
       /\ errors' = errors + 1
       /\ outcome'[name] = "error"
       /\ pc' = "loop" /\ queue' = Tail(queue)
       /\ <<changed, updated, up_to_date, args, file, exit>>'
            = <<changed, updated, up_to_date, args, file, exit>>

C7_RecoverableResolverError == [][C7_RecoverableStep]_vars

\* Both recoverable errors happened in one run, or one was followed by an
\* update of the next source.
C7_Witness ==
    \E n, m \in SourceNames :
        /\ LoopCompleted /\ n < m
        /\ calls[n].resolved = Err("FetchGitTags:NoTagsFitFilter")
        /\ outcome[n] = "error" /\ Unchanged(n)
        /\ outcome[m] = "updated"
        /\ exit = "SUCCESS"

\* C8 as claimed: a source whose expanded template is no URL ends the whole
\* run in failure, with nothing written.
UrlFailed(n) == Visited(n) /\ calls[n].url = Err("BuildFullUrlError")

C8_Original ==
    \A n \in SourceNames :
        (UrlFailed(n) /\ pc = "done") => exit = "FAILURE" /\ writes = 0

\* The run the claim rules out: it went past a source with a broken
\* template, updated the next one, wrote the lockfile and exited with success
\* (update.rs:205-215 logs the error and goes on with `continue`).
C8_Witness ==
    \E n, m \in SourceNames :
        /\ UrlFailed(n) /\ n < m
        /\ outcome[n] = "error" /\ Unchanged(n)
        /\ outcome[m] = "updated"
        /\ pc = "done" /\ exit = "SUCCESS" /\ writes = 1
        /\ file = OnDisk(sources)

\* C9 as claimed: a hasher failure other than a failed prefetch (the tool
\* could not be started, or its output could not be parsed) ends the run in
\* failure with nothing written.
SystemicErrs == {Err("CommandFailed"), Err("MalformedOrIncorrectJson")}
HasherBroke(n) == Visited(n) /\ calls[n].fetched \in SystemicErrs

C9_Original ==
    \A n \in SourceNames :
        (HasherBroke(n) /\ pc = "done") => exit = "FAILURE" /\ writes = 0

\* C9: the step in which the hasher fails with such an error changes no
\* source (latest_checked_version included), counts one skipped and one
\* error, and goes on to the next source; what other sources changed is
\* written at the end of the run, which fails only for a later reason.
C9_HasherBrokeStep ==
    (InLoop /\ calls'[name].fetched \in SystemicErrs)
    => /\ sources' = sources
       /\ skipped' = skipped + 1
       /\ errors' = errors + 1
       /\ outcome'[name] = "error"
       /\ pc' = "loop" /\ queue' = Tail(queue)
       /\ <<changed, updated, up_to_date, file, exit>>'
            = <<changed, updated, up_to_date, file, exit>>

C9_HasherErrorSkips ==
    /\ [][C9_HasherBrokeStep]_vars
    /\ [](\A n \in SourceNames :
            (HasherBroke(n) /\ pc = "done")
            => /\ Unchanged(n)
               /\ exit # "SUCCESS" => \/ queue = << >> /\ writes = 1
                                      \/ queue # << >> /\ Head(queue) > n
               /\ exit = "SUCCESS" => /\ writes = 1 <=> changed
                                      /\ changed => file = OnDisk(sources))

\* An update made before the hasher broke was written and the run succeeded.
C9_Witness ==
    \E n, m \in SourceNames :
        /\ HasherBroke(n) /\ m < n
        /\ outcome[m] = "updated" /\ ~Unchanged(m)
        /\ outcome[n] = "error" /\ Unchanged(n)
        /\ pc = "done" /\ exit = "SUCCESS" /\ writes = 1
        /\ file = OnDisk(sources)

\* C10: for a source that is not static and whose candidate version equals its
\* latest_checked_version, a run without --refetch counts the source up to
\* date, builds no URL, fetches no hash and changes no field; a run with
\* --refetch builds the URL and, with the URL built, fetches the hash.
SameCandidate(n) ==
    /\ Visited(n)
    /\ calls[n].resolved.ok
    /\ ~is_static(loaded[n].update_scheme)
    /\ Value(calls[n].resolved) = loaded[n].latest_checked_version

C10_Staleness ==
    \A n \in SourceNames :
        SameCandidate(n)
        => /\ ~args.refetch
              => /\ outcome[n] = "up_to_date"
                 /\ calls[n].url = NotCalled
                 /\ calls[n].fetched = NotCalled
                 /\ Unchanged(n)
           /\ args.refetch
              => /\ calls[n].url # NotCalled
                 /\ calls[n].url.ok => calls[n].fetched # NotCalled

\* Both halves in one place: a source whose hash was never fetched for the
\* candidate (version behind latest_checked_version) is still up to date
\* without --refetch.
C10_Witness ==
    \E n \in SourceNames :
        /\ SameCandidate(n) /\ ~args.refetch
        /\ loaded[n].version # loaded[n].latest_checked_version
        /\ outcome[n] = "up_to_date" /\ up_to_date >= 1

\* With --refetch the hash of the same candidate was fetched and replaced.
C10_RefetchWitness ==
    \E n \in SourceNames :
        /\ SameCandidate(n) /\ args.refetch
        /\ calls[n].fetched.ok
        /\ sources[n].hash # loaded[n].hash

\* C11: a step with a successful hash fetch of hash h for candidate c sets
\* latest_checked_version to c and does exactly one of: (version # c) record
\* the diff version -> c and set hash = h, version = c; (version = c, hash # h)
\* record a hash-only update and set hash = h; (version = c, hash = h) count
\* the source up to date and change neither. Nothing else of the source and
\* no other source changes.
C11_FetchedStep ==
    (InLoop /\ calls'[name].fetched.ok)
    => LET c == Value(calls'[name].resolved)
           h == Value(calls'[name].fetched)
           old == sources[name]
           new == sources'[name]
           diff == [name |-> name, diff |-> [old |-> old.version, new |-> c]]
       IN /\ new.latest_checked_version = c
          /\ new = [old EXCEPT !.version = new.version, !.hash = new.hash,
                               !.latest_checked_version = c]
          /\ \A m \in DOMAIN sources : m # name => sources'[m] = sources[m]
          /\ old.version # c
             => /\ new.version = c /\ new.hash = h
                /\ updated' = Append(updated, diff)
                /\ up_to_date' = up_to_date
          /\ (old.version = c /\ old.hash # h)
             => /\ new.version = old.version /\ new.hash = h
                /\ updated' = Append(updated, diff)
                /\ up_to_date' = up_to_date
          /\ (old.version = c /\ old.hash = h)
             => /\ new.version = old.version /\ new.hash = old.hash
                /\ updated' = updated
                /\ up_to_date' = up_to_date + 1

C11_ThreeWay == [][C11_FetchedStep]_vars

\* One run made a version update of one source and a hash-only update of
\* another.
C11_Witness ==
    \E n, m \in DOMAIN loaded :
        /\ LoopCompleted
        /\ HashFetched(n) /\ loaded[n].version # Value(calls[n].resolved)
        /\ sources[n].version = Value(calls[n].resolved)
        /\ HashFetched(m) /\ loaded[m].version = Value(calls[m].resolved)
        /\ sources[m].hash # loaded[m].hash
        /\ Len(updated) = 2

\* The third way: same version, same hash, only latest_checked_version moved.
C11_UpToDateWitness ==
    \E n \in DOMAIN loaded :
        /\ HashFetched(n) /\ outcome[n] = "up_to_date"
        /\ sources[n].latest_checked_version # loaded[n].latest_checked_version
        /\ sources[n].version = loaded[n].version /\ sources[n].hash = loaded[n].hash

\* C12 as claimed: a finished run with --pin (--unpin), whatever --force and
\* --refetch, leaves every selected source of the lockfile pinned (unpinned),
\* a failed write apart.
C12_Original ==
    (pc = "done" /\ PinRun /\ file.json /\ ~(exit = "FAILURE" /\ writes = 1))
    => \A n \in DOMAIN file.map :
         selected(args, n) => file.map[n].pinned = args.pin

PinChanged(n) == sources[n].pinned # loaded[n].pinned
Recorded == {updated[i].name : i \in 1..Len(updated)}

\* C12: in a run with --pin (--unpin) that is not refused (names are given, or
\* --force), every source the loop has visited is pinned (unpinned), and at
\* the end of the loop every selected one; exactly the sources whose pinned
\* value changed are recorded, and `changed` is set iff there is one, so that
\* they are written; no resolver, URL or hasher call is made, nothing is
\* skipped or counted an error, and no field but pinned changes.
C12_PinRun ==
    (PinRun /\ pc \in {"loop", "done"} /\ ~refuses(args) /\ file.json)
    => /\ calls = NoCalls
       /\ skipped = 0 /\ errors = 0
       /\ \A n \in DOMAIN loaded :
            /\ sources[n] = [loaded[n] EXCEPT !.pinned = sources[n].pinned]
            /\ outcome[n] \in {"none", "pinned", "unpinned", "already"}
            /\ outcome[n] # "none" => selected(args, n) /\ sources[n].pinned = args.pin
            /\ outcome[n] = "none" => ~PinChanged(n)
            /\ PinChanged(n) <=> n \in Recorded
       /\ changed <=> \E n \in DOMAIN loaded : PinChanged(n)
       /\ (pc = "done" /\ loaded # << >>)
          => /\ queue = << >>
             /\ \A n \in DOMAIN loaded : selected(args, n) => sources[n].pinned = args.pin
             /\ writes = 1 <=> changed
             /\ exit = "SUCCESS" => file = OnDisk(sources)

\* A run with --pin, --refetch and a name pinned the named source, left the
\* other alone, and wrote the lockfile.
C12_Witness ==
    \E n, m \in DOMAIN loaded :
        /\ LoopCompleted /\ args.pin /\ args.refetch /\ ~args.force
        /\ args.source_names = {n} /\ m # n
        /\ ~loaded[n].pinned /\ sources[n].pinned
        /\ ~sources[m].pinned
        /\ exit = "SUCCESS" /\ file = OnDisk(sources)

\* C13: resolving a Static source gives its current version whatever the
\* remote would print; no step changes the version of a Static source; and in
\* a run without --pin/--unpin every Static source the loop visits and does
\* not skip as pinned is resolved to its version and goes on to the URL build
\* and, the URL built, to the hasher, with or without --refetch.
IsStaticSource(n) == is_static(loaded[n].update_scheme)

C13_StaticState ==
    \A n \in DOMAIN loaded :
        (pc \in {"loop", "done"} /\ IsStaticSource(n))
        => /\ sources[n].version = loaded[n].version
           /\ is_static(sources[n].update_scheme)
           /\ \A out \in TagOutputs \cup BranchOutputs :
                get_new_version_for(sources[n].update_scheme, sources[n], out)
                    = Ok(sources[n].version)
           /\ (outcome[n] # "none" /\ ~PinRun /\ ~skips_pinned(args, loaded[n]))
              => /\ calls[n].resolved = Ok(loaded[n].version)
                 /\ calls[n].url = full_url(loaded[n], loaded[n].version)
                 /\ calls[n].url.ok => calls[n].fetched # NotCalled
                 /\ HashFetched(n) => sources[n].hash = Value(calls[n].fetched)

C13_Static ==
    /\ []C13_StaticState
    /\ [][\A n \in DOMAIN sources :
            (pc = "loop" /\ is_static(sources[n].update_scheme))
            => sources'[n].version = sources[n].version]_vars

\* Without --refetch, a Static source whose latest_checked_version equals its
\* version had its hash fetched again and replaced.
C13_Witness ==
    \E n \in DOMAIN loaded :
        /\ pc \in {"loop", "done"} /\ IsStaticSource(n) /\ ~args.refetch
        /\ loaded[n].latest_checked_version = loaded[n].version
        /\ HashFetched(n)
        /\ sources[n].hash # loaded[n].hash
        /\ sources[n].version = loaded[n].version

\* C14 as claimed: for a list of tags and a prefix p (empty when unset), the
\* candidate is the last tag that starts with p and whose character right
\* after p is an ASCII digit, with p stripped; NoTagsFitFilter if and only if
\* there is no such tag.
TagFits(t, p) ==
    /\ Len(t) > Len(p)
    /\ SubSeq(t, 1, Len(p)) = p
    /\ t[Len(p) + 1] \in {"0", "1", "2", "3", "4", "5", "6", "7", "8", "9"}

ClaimedCandidate(tags, p) ==
    LET fit == {i \in 1..Len(tags) : TagFits(tags[i], p)} IN
    IF fit = {} THEN Err("NoTagsFitFilter")
    ELSE LET i == CHOOSE i \in fit : \A j \in fit : j <= i
         IN Ok(SubSeq(tags[i], Len(p) + 1, Len(tags[i])))

ProbedTags == probe.fn = "fetch_latest_git_tag"
ProbedPrefix == IF probe.in.filter = None THEN <<>> ELSE probe.in.filter[1]

C14_TagFilter ==
    ProbedTags => probe.out = ClaimedCandidate(probe.in.tags, ProbedPrefix)

\* The part of C14 that holds: prefixes of ASCII characters without '/', tags
\* without '/'.
PlainString(t) == \A i \in 1..Len(t) : t[i] \notin TwoByteChars \cup {"/"}

C14_PlainTagFilter ==
    (/\ ProbedTags
     /\ PlainString(ProbedPrefix)
     /\ \A i \in 1..Len(probe.in.tags) : PlainString(probe.in.tags[i]))
    => probe.out = ClaimedCandidate(probe.in.tags, ProbedPrefix)

\* The release history with prefix "v" gave "2.0.0-rc1".
C14_Witness ==
    /\ ProbedTags
    /\ probe.in = [tags |-> ReleaseTags, filter |-> Some(<<"v">>)]
    /\ probe.out = Ok(<<"2", ".", "0", ".", "0", "-", "r", "c", "1">>)

\* Prefix "v" rejected "version-info".
C14_RejectWitness ==
    /\ ProbedTags
    /\ probe.in = [tags |-> WordTags, filter |-> Some(<<"v">>)]
    /\ probe.out = Err("NoTagsFitFilter")

\* C15 as claimed: for every short hash length >= 1 and every list of branch
\* refs, resolving a GitBranch source gives "{branch}-{the first
\* short_hash_length characters of the head's hash}" when a ref's last segment
\* is the branch, BranchNotFound otherwise, and never crashes.
ProbedBranch == probe.fn = "get_new_version_for"
HeadsOf(lines, branch) == {i \in 1..Len(lines) : Last(lines[i].ref) = branch}
FirstChars(h, n) == SubSeq(h, 1, IF n <= Len(h) THEN n ELSE Len(h))

C15_BranchResolution ==
    ProbedBranch
    => LET heads == HeadsOf(probe.in.lines, probe.in.branch) IN
       /\ probe.out.version.err # "panic"
       /\ heads = {}
          => /\ probe.out.commit = Err("BranchNotFound")
             /\ ~probe.out.version.ok
       /\ heads # {}
          => \E i \in heads :
               /\ probe.out.version.ok
               /\ Value(probe.out.version)
                    = probe.in.branch \o <<"-">>
                        \o FirstChars(probe.in.lines[i].hash, probe.in.short_hash_length)

\* The part of C15 that holds: short hash lengths up to the length of a hash.
C15_WithinHash ==
    (ProbedBranch /\ probe.in.short_hash_length <= HashLen) => C15_BranchResolution

\* The branch was found behind another head and cut to one character.
C15_Witness ==
    /\ ProbedBranch
    /\ Len(probe.in.lines) = 2 /\ probe.in.branch = <<"m">>
    /\ probe.in.short_hash_length = 1
    /\ probe.out.version = Ok(<<"m", "-", "b">>)

\* C16 as claimed: the URL builder replaces every {version} of the template
\* by the version and, for a GitBranch source, every {branch} by the branch,
\* and parses the result; the URL it gives holds neither placeholder.
ProbedUrl == probe.fn = "full_url"
\* A placeholder is still in a URL when it is there as written or, the URL
\* being parsed, percent-encoded.
Holds(url, token) ==
    LET encoded == Url_as_str(<<"https://h", "/", token>>)[3]
    IN \E i \in 1..Len(url) : url[i] \in {token, encoded}

ClaimedExpansion(src, version) ==
    LET versioned == replace(src.artifact_url_template, "{version}", version)
    IN IF src.update_scheme.type = "git-branch"
       THEN Url_as_str(replace(versioned, "{branch}", src.update_scheme.branch))
       ELSE Url_as_str(versioned)

C16_Placeholders ==
    (ProbedUrl /\ probe.out.ok)
    => /\ Value(probe.out) = ClaimedExpansion(probe.in.source, probe.in.version)
       /\ ~Holds(Value(probe.out), "{version}")
       /\ probe.in.source.update_scheme.type = "git-branch"
          => ~Holds(Value(probe.out), "{branch}")

\* The part of C16 that holds: every {version} is replaced.
C16_VersionReplaced ==
    (ProbedUrl /\ probe.out.ok)
    => /\ ~Holds(Value(probe.out), "{version}")
       /\ Value(probe.out)
            = Url_as_str(replace(probe.in.source.artifact_url_template,
                                 "{version}", probe.in.version))

C16_Witness ==
    /\ ProbedUrl
    /\ probe.in.source.artifact_url_template = TplTwice
    /\ probe.out = Ok(<<"https://h", "/", "2", "/", "a-", "2">>)

\* ------------------------------------------------------------------- C17
\* The command of the invocation; the arguments of `update` name none.
Command == IF "cmd" \in DOMAIN args THEN args.cmd ELSE "update"

\* The name `add` was run for, given or inferred.
AddedName == build_source_name(args.update_scheme)
AddOfExisting ==
    /\ pc = "done"
    /\ Command = "add"
    /\ AddedName.ok
    /\ Value(AddedName) \in DOMAIN loaded

\* The step of an `add` for a name the lockfile already has: it exits with
\* FAILURE, calls neither the lister nor the hasher, writes nothing, and
\* leaves the file and with it the entry of that name as they were.
C17_RefusedStep ==
    LET source_name == build_source_name(args'.update_scheme) IN
    (/\ pc' = "done"
     /\ "cmd" \in DOMAIN args' /\ args'.cmd = "add"
     /\ source_name.ok
     /\ file.json /\ Value(source_name) \in DOMAIN file.map)
    => /\ exit' = "FAILURE"
       /\ calls' = NoCalls
       /\ writes' = 0
       /\ file' = file
       /\ loaded' = file.map
       /\ sources' = loaded'

\* The names of the lockfile from one step to the next: `add` puts in one
\* name the lockfile had not, every entry there was staying what it was;
\* `delete` takes out the one name it is given; `edit` and `update` leave the
\* names as they are; `init` starts with none.
C17_NamesStep ==
    LET command == IF "cmd" \in DOMAIN args' THEN args'.cmd ELSE "update" IN
    /\ (file.json /\ file'.json /\ file' # file)
       => IF command = "add"
          THEN LET n == Value(build_source_name(args'.update_scheme)) IN
               /\ n \notin DOMAIN file.map
               /\ DOMAIN file'.map = DOMAIN file.map \cup {n}
               /\ \A m \in DOMAIN file.map : file'.map[m] = file.map[m]
          ELSE IF command = "delete"
          THEN /\ DOMAIN file'.map = DOMAIN file.map \ {args'.source_name}
               /\ \A m \in DOMAIN file'.map : file'.map[m] = file.map[m]
          ELSE /\ command \in {"edit", "update"}
               /\ DOMAIN file'.map = DOMAIN file.map
    /\ (~file.json /\ file'.json) => (command = "init" /\ file'.map = << >>)

\* C17: `add` for a name, given or inferred, that the lockfile already has
\* exits with FAILURE, calls neither the lister nor the hasher, writes
\* nothing, and leaves the file and with it the entry of that name as they
\* were; and over every sequence of `init`, `add`, `delete`, `edit` and
\* `update` a name comes into the lockfile only by an `add` of a name that is
\* not in it, so that no entry is ever put in the place of another.
C17_DuplicateName == [][C17_RefusedStep /\ C17_NamesStep]_vars

C17_Witness ==
    /\ AddOfExisting
    /\ args.update_scheme.type = "git-tags"
    /\ args.update_scheme.source_name = None
    /\ args.force_hash = None
    /\ exit = "FAILURE"

C17_GivenNameWitness ==
    /\ AddOfExisting
    /\ args.update_scheme.source_name # None
    /\ args.force_hash # None
    /\ exit = "FAILURE"

\* The second of two commands is an `add` for the name the first, an `add`
\* too, put into the lockfile.
C17_SequenceWitness ==
    /\ AddOfExisting
    /\ run = 2
    /\ args.update_scheme.type = "static"
    /\ loaded[Value(AddedName)].update_scheme.type = "static"
    /\ loaded[Value(AddedName)].artifact_url_template = TplGood
    /\ exit = "FAILURE"
    /\ file = OnDisk(loaded)

\* The second of two commands is an `add` that goes through and fills the
\* lockfile.
C17_SecondAddWitness ==
    /\ pc = "done" /\ Command = "add" /\ exit = "SUCCESS"
    /\ run = 2
    /\ DOMAIN loaded # SourceNames
    /\ DOMAIN file.map = SourceNames

\* ------------------------------------------------------------------- C18
AddSucceeded == pc = "done" /\ Command = "add" /\ exit = "SUCCESS"

\* The initial version: the one given, or the one resolved for the scheme.
InitialVersion ==
    IF args.update_scheme.version # None THEN args.update_scheme.version[1]
    ELSE Value(calls[Value(AddedName)].resolved)

\* One new entry with the initial version, and the entries there were.
AddedOne(n) ==
    /\ n \notin DOMAIN loaded
    /\ DOMAIN file.map = DOMAIN loaded \cup {n}
    /\ \A m \in DOMAIN loaded : file.map[m] = loaded[m]
    /\ file.json
    /\ file.map[n].version = InitialVersion
    /\ file.map[n].latest_checked_version = InitialVersion

ForcedHash(n) ==
    /\ file.map[n].hash = args.force_hash[1]
    /\ calls[n].url = NotCalled
    /\ calls[n].fetched = NotCalled

\* C18: a successful `add` leaves the lockfile with exactly one entry more,
\* whose version and latestCheckedVersion are the initial version and whose
\* hash is the forced hash, the hasher not called, or else the hash the hasher
\* gave for the template with {version} and, for a git-branch source, {branch}
\* replaced; the entries there were are unchanged.
C18_SuccessfulAdd ==
    AddSucceeded =>
        LET n == Value(AddedName) IN
        /\ AddedOne(n)
        /\ IF args.force_hash # None THEN ForcedHash(n)
           ELSE /\ calls[n].url = Ok(ClaimedExpansion(file.map[n], InitialVersion))
                /\ calls[n].fetched = Ok(file.map[n].hash)

\* What holds of every successful `add`: the hash is the one fetched for the
\* template with {version} replaced.
C18_VersionExpanded ==
    AddSucceeded =>
        LET n == Value(AddedName) IN
        /\ AddedOne(n)
        /\ IF args.force_hash # None THEN ForcedHash(n)
           ELSE /\ calls[n].url = Ok(Url_as_str(replace(file.map[n].artifact_url_template,
                                                        "{version}", InitialVersion)))
                /\ calls[n].fetched = Ok(file.map[n].hash)

\* The example: a Static source with version "1" and a forced hash.
C18_Witness ==
    /\ AddSucceeded
    /\ args.update_scheme.type = "static"
    /\ args.force_hash = Some("h2")
    /\ ~args.pinned
    /\ LET e == file.map[Value(AddedName)] IN
       /\ e.version = <<"1">>
       /\ e.hash = "h2"
       /\ e.latest_checked_version = <<"1">>
       /\ ~e.pinned
    /\ DOMAIN loaded # {}

C18_FetchedWitness ==
    /\ AddSucceeded
    /\ args.force_hash = None
    /\ args.update_scheme.type = "git-tags"
    /\ args.update_scheme.version = None
    /\ file.map[Value(AddedName)].hash = "h1"

\* ------------------------------------------------------------------- C19
DeleteRan == pc = "done" /\ Command = "delete"

\* C19: `delete` of a name the lockfile has takes exactly that entry out of
\* the map, the others as they were, and, returning Ok, leaves the file
\* holding that map (the empty map when the entry was the only one); `delete`
\* of a name the lockfile has not returns SourceNameNonexistent without
\* writing, the file as it was.
C19_Delete ==
    (DeleteRan /\ exit # "ReadError") =>
        IF args.source_name \in DOMAIN loaded
        THEN /\ DOMAIN sources = DOMAIN loaded \ {args.source_name}
             /\ \A m \in DOMAIN sources : sources[m] = loaded[m]
             /\ exit \in {"Ok", "WriteError"}
             /\ exit = "Ok" => file = OnDisk(sources)
        ELSE /\ exit = "SourceNameNonexistent"
             /\ writes = 0
             /\ file = OnDisk(loaded)

C19_Witness ==
    /\ DeleteRan
    /\ DOMAIN loaded = SourceNames
    /\ args.source_name = 2
    /\ exit = "Ok"
    /\ DOMAIN file.map = {1}

C19_OnlyEntryWitness ==
    /\ DeleteRan
    /\ DOMAIN loaded = {args.source_name}
    /\ file = OnDisk(<< >>)

C19_AbsentWitness ==
    /\ DeleteRan
    /\ loaded # << >>
    /\ exit = "SourceNameNonexistent"

\* ------------------------------------------------------------------- C20
EditRan == pc = "done" /\ Command = "edit"
SourceFields ==
    {"version", "latest_checked_version", "artifact_url_template", "git_url", "hash",
     "tag_prefix_filter", "unpack", "pinned", "update_scheme"}

\* The values the claim has a key take.
ValidFor(source_key, value) ==
    IF source_key \in {"pinned", "unpack"} THEN value \in {<<"true">>, <<"false">>}
    ELSE IF source_key = "artifact_url_template" THEN Url_parse(value).ok
    ELSE IF source_key = "git_url" THEN value = <<>> \/ Url_parse(value).ok
    ELSE TRUE

\* C20: `edit` leaves every source but the one named as it was, and of that
\* one every field but the field of the key, which is none of version, hash
\* and latestCheckedVersion; for a name the lockfile has not, or a value the
\* key does not take (a URL that does not parse, a boolean other than `true`
\* and `false`), it exits with FAILURE and writes nothing; an `edit` that
\* succeeds leaves the file with the map so edited, and an empty value for
\* git_url or tag_prefix leaves that field unset.
C20_Edit ==
    EditRan =>
        LET n == args.source_name
            field == KeyField(args.source_key)
        IN /\ DOMAIN sources = DOMAIN loaded
           /\ \A m \in DOMAIN loaded \ {n} : sources[m] = loaded[m]
           /\ field \in SourceFields \ {"version", "hash", "latest_checked_version"}
           /\ n \in DOMAIN loaded
              => \A f \in SourceFields \ {field} : sources[n][f] = loaded[n][f]
           /\ (n \notin DOMAIN loaded \/ ~ValidFor(args.source_key, args.value))
              => /\ exit = "FAILURE"
                 /\ writes = 0
                 /\ sources = loaded
                 /\ file.json => file = OnDisk(loaded)
           /\ exit = "SUCCESS"
              => /\ file = OnDisk(sources)
                 /\ n \in DOMAIN loaded
                 /\ ValidFor(args.source_key, args.value)
                 /\ (args.value = <<>> /\ field \in {"git_url", "tag_prefix_filter"})
                    => sources[n][field] = None

C20_Witness ==
    /\ EditRan
    /\ exit = "SUCCESS"
    /\ DOMAIN loaded = SourceNames
    /\ args.source_key = "artifact_url_template"
    /\ sources[args.source_name].artifact_url_template = TplShort
    /\ loaded[args.source_name].artifact_url_template # TplShort

C20_InvalidWitness ==
    /\ EditRan
    /\ args.source_name \in DOMAIN loaded
    /\ args.source_key = "pinned"
    /\ args.value = <<"True">>
    /\ exit = "FAILURE"

\* A tag prefix that was set is cleared by the empty value.
C20_ClearedWitness ==
    /\ EditRan
    /\ exit = "SUCCESS"
    /\ args.source_key = "tag_prefix"
    /\ args.value = <<>>
    /\ loaded[args.source_name].tag_prefix_filter = Some(<<"v">>)
    /\ file.map[args.source_name].tag_prefix_filter = None

\* A git_url that was set is cleared by the empty value.
C20_GitUrlClearedWitness ==
    /\ EditRan
    /\ exit = "SUCCESS"
    /\ args.source_key = "git_url"
    /\ args.value = <<>>
    /\ loaded[args.source_name].git_url = Some(RepoUrl)
    /\ file.map[args.source_name].git_url = None

\* The second of two commands edits the source the first, an `add`, put into
\* the lockfile.
C20_AddedWitness ==
    /\ EditRan
    /\ exit = "SUCCESS"
    /\ run = 2
    /\ args.source_key = "git_url"
    /\ loaded[args.source_name].update_scheme.type = "static"
    /\ loaded[args.source_name].artifact_url_template = TplGood
    /\ loaded[args.source_name].git_url = None
    /\ file.map[args.source_name].git_url = Some(RepoUrl)

\* A git_url is stored as the Url it parses to: a placeholder in the value
\* given is written out percent-encoded.
C20_GitUrlWitness ==
    /\ EditRan
    /\ exit = "SUCCESS"
    /\ args.source_key = "git_url"
    /\ args.value = TplShort
    /\ file.map[args.source_name].git_url = Some(<<"https://h", "/", "%7Bversion%7D">>)

\* ------------------------------------------------------------------- C21
\* C21: once a command has begun to persist the lockfile, the file holds the
\* complete document that was loaded or the complete document being written,
\* whether the write went through or failed on the way.
C21_OldOrNew ==
    writes > 0 => (file = OnDisk(loaded) \/ file = OnDisk(sources))

\* What holds: a write that fails when the file is opened leaves the old
\* document, and one that is reported as done leaves the new one.
C21_CreateOrDone ==
    (writes > 0 /\ pc = "done" /\ file.json)
    => /\ exit = "SUCCESS" => file = OnDisk(sources)
       /\ exit = "FAILURE" => file = OnDisk(loaded)

C21_Witness ==
    /\ pc = "done"
    /\ writes > 0
    /\ exit = "FAILURE"
    /\ file = Truncated
    /\ loaded # << >>

\* ------------------------------------------------------------------- C22
\* C22 as claimed: a finished run in which the URL of a source could not be
\* built, or the hasher could not be started or answered with something
\* malformed, does not exit with 0.
C22_Original ==
    (pc = "done" /\ \E n \in SourceNames : UrlFailed(n) \/ HasherBroke(n))
    => exit # "SUCCESS"

\* The run the claim rules out: one source was skipped for its URL, the other
\* for a hasher that could not be started, and the run exited with 0.
C22_Witness ==
    \E n, m \in SourceNames :
        /\ pc = "done" /\ exit = "SUCCESS"
        /\ UrlFailed(n)
        /\ calls[m].fetched = Err("CommandFailed")
        /\ errors = 2

\* ------------------------------------------------------------------- C23
\* The hasher was called for the source and failed otherwise than with
\* PrefetchFailed.
OtherFetchError(r) == r # NotCalled /\ ~r.ok /\ r.err # "PrefetchFailed"

C23_Step ==
    (InLoop /\ OtherFetchError(calls'[name].fetched))
    => /\ sources'[name].version = sources[name].version
       /\ sources'[name].hash = sources[name].hash
       /\ sources'[name].latest_checked_version = sources[name].latest_checked_version
       /\ sources'[name] = sources[name]
       /\ skipped' = skipped + 1
       /\ errors' = errors + 1
       /\ up_to_date' = up_to_date /\ updated' = updated
       /\ pc' = "loop" /\ queue' = Tail(queue)

\* C23: a hasher error other than PrefetchFailed leaves the source as it was
\* loaded, version, hash and latest_checked_version included, counts it as
\* skipped and as an error, and the loop goes on with the next selected
\* source.
C23_OtherFetchError ==
    /\ [][C23_Step]_vars
    /\ [](\A n \in DOMAIN loaded :
            (Visited(n) /\ OtherFetchError(calls[n].fetched))
            => /\ sources[n] = loaded[n]
               /\ outcome[n] = "error"
               /\ skipped >= 1 /\ errors >= 1)

\* The first source was skipped for a malformed answer of the hasher; the
\* second was then updated.
C23_Witness ==
    \E n, m \in DOMAIN loaded :
        /\ n < m
        /\ calls[n].fetched = Err("MalformedOrIncorrectJson")
        /\ sources[n] = loaded[n]
        /\ outcome[m] = "updated"
        /\ skipped = 1 /\ errors = 1

\* ------------------------------------------------------------------- C24
ProbedOrders == probe.fn = "update"

\* The answers the collaborators gave in the run, as the loop was handed them.
AnswersGiven == [n \in SourceNames |-> [r |-> calls[n].resolved, h |-> calls[n].fetched]]

\* The loop of the run, source by source in the order of the names, leaves
\* what `update_outcome` computes from the answers given (a failed write
\* apart).
C24_LoopAgrees ==
    (pc = "done" /\ loaded # << >> /\ ~(writes = 1 /\ exit = "FAILURE"))
    => LET o == update_outcome(args, loaded, AnswersGiven,
                               SortedSeq({n \in DOMAIN loaded : selected(args, n)}))
       IN /\ o.file = file
          /\ o.written = (writes = 1)
          /\ o.exit = exit
          /\ o.report = [i \in 1..Len(updated) |-> updated[i].name]

\* C24: for one lockfile, one set of flags and one answer of each collaborator
\* for each source, `update` leaves the same file, writes it or not, and exits
\* with the same code in whatever order it visits the sources.
C24_OrderIndependent ==
    ProbedOrders =>
        \A o1, o2 \in DOMAIN probe.out :
            /\ probe.out[o1].file = probe.out[o2].file
            /\ probe.out[o1].written = probe.out[o2].written
            /\ probe.out[o1].exit = probe.out[o2].exit

\* What holds: the file left, whether it is written, and whether the exit
\* code is zero do not depend on the order; the exit code itself does only
\* when a resolver panics for one source and fails for another.
C24_PersistedOrderIndependent ==
    ProbedOrders =>
        \A o1, o2 \in DOMAIN probe.out :
            /\ probe.out[o1].file = probe.out[o2].file
            /\ probe.out[o1].written = probe.out[o2].written
            /\ (probe.out[o1].exit = "SUCCESS") = (probe.out[o2].exit = "SUCCESS")
            /\ probe.out[o1].exit # probe.out[o2].exit
               => \E n, m \in SourceNames :
                    /\ probe.in.answers[n].r = Err("panic")
                    /\ ~probe.in.answers[m].r.ok
                    /\ probe.in.answers[m].r.err \in {"FetchGitTags", "FetchBranchCommit"}

\* The run the claim rules out: two git-branch sources, the remote of the one
\* listing its branch, so that the cut of the hash at a short_hash_length
\* above its length panics, the remote of the other not listing it
\* (BranchNotFound, which ends the run with FAILURE); the exit status is that
\* of the source visited first.
C24_PanicOrFailure ==
    /\ ProbedOrders
    /\ \A n \in SourceNames : probe.in.map[n].update_scheme.type = "git-branch"
    /\ probe.in.answers[1].r = Err("panic")
    /\ probe.in.answers[2].r = Err("FetchBranchCommit")
    /\ probe.out[<<1, 2>>].exit = "PANIC"
    /\ probe.out[<<2, 1>>].exit = "FAILURE"

\* Two sources updated in either order: the same file, the reports in the
\* order of the visits.
C24_Witness ==
    /\ ProbedOrders
    /\ \E o1, o2 \in DOMAIN probe.out :
         /\ o1 # o2
         /\ probe.out[o1].written
         /\ probe.out[o1].file = probe.out[o2].file
         /\ Len(probe.out[o1].report) = 2
         /\ probe.out[o1].report # probe.out[o2].report

\* ------------------------------------------------------------------- C25
SelectedPresent == {n \in DOMAIN loaded : selected(args, n)}
CountedUpdated == {n \in SelectedPresent : outcome[n] \in {"updated", "pinned", "unpinned"}}
CountedUpToDate == {n \in SelectedPresent : outcome[n] \in {"up_to_date", "already"}}
CountedSkipped == {n \in SelectedPresent : outcome[n] \in {"skipped", "error"}}

\* C25: throughout the loop every selected source that has been passed is
\* counted once, as updated, as up to date or as skipped, and errors never
\* exceed skipped; so at the end of a loop that is not aborted updated +
\* up_to_date + skipped is the number of selected sources of the map, and in a
\* pin or unpin run nothing is skipped: changed + already in state is that
\* number.
C25_CounterPartition ==
    pc \in {"loop", "done"} =>
        /\ Len(updated) = Cardinality(CountedUpdated)
        /\ CountedUpdated = {updated[i].name : i \in 1..Len(updated)}
        /\ up_to_date = Cardinality(CountedUpToDate)
        /\ skipped = Cardinality(CountedSkipped)
        /\ errors = Cardinality({n \in SelectedPresent : outcome[n] = "error"})
        /\ errors <= skipped
        /\ Len(updated) + up_to_date + skipped = Cardinality(SelectedPresent) - Len(queue)
        /\ LoopCompleted
           => Len(updated) + up_to_date + skipped = Cardinality(SelectedPresent)
        /\ (LoopCompleted /\ PinRun)
           => /\ skipped = 0
              /\ Len(updated) + up_to_date = Cardinality(SelectedPresent)

\* A run over two sources: one skipped with an error, one updated.
C25_Witness ==
    /\ LoopCompleted /\ ~PinRun
    /\ Cardinality(SelectedPresent) = 2
    /\ Len(updated) = 1 /\ skipped = 1 /\ errors = 1 /\ up_to_date = 0

C25_PinWitness ==
    /\ LoopCompleted /\ args.pin
    /\ Cardinality(SelectedPresent) = 2
    /\ Len(updated) = 1 /\ up_to_date = 1

\* ------------------------------------------------------------------- C26
Filtered == args.source_names # {}
KeepsFrame(new, old) ==
    /\ new.artifact_url_template = old.artifact_url_template
    /\ new.update_scheme = old.update_scheme
    /\ ~PinRun => new.pinned = old.pinned

\* C26: a run of `update` has, in memory and in the file it leaves (unless the
\* write fails on the way), the names it loaded and no other, each source
\* with the template and scheme it had and, in a run without --pin and
\* --unpin (with --force too), the pinned flag it had; with names given, a
\* source not named has every field as loaded; and names that the lockfile
\* has not do not fail the run: one that goes through the loop and has
\* nothing to write, or writes what it changed, exits with 0.
C26_Frame ==
    (pc \in {"loop", "done"} /\ loaded # << >>) =>
        /\ DOMAIN sources = DOMAIN loaded
        /\ \A n \in DOMAIN loaded :
             /\ KeepsFrame(sources[n], loaded[n])
             /\ (Filtered /\ n \notin args.source_names) => sources[n] = loaded[n]
        /\ file.json
           => /\ DOMAIN file.map = DOMAIN loaded
              /\ \A n \in DOMAIN loaded :
                   /\ KeepsFrame(file.map[n], loaded[n])
                   /\ (Filtered /\ n \notin args.source_names) => file.map[n] = loaded[n]
        /\ (/\ pc = "done"
            /\ ~(args.source_names \subseteq DOMAIN loaded)
            /\ queue = << >>
            /\ writes = 0 \/ (file = OnDisk(sources) /\ sources # loaded))
           => exit = "SUCCESS"

\* A run with --force and two names, one of them not in the lockfile, updated
\* the pinned source named, left the other source alone, and exited with 0.
C26_Witness ==
    \E n \in DOMAIN loaded : \E m \in SourceNames \ DOMAIN loaded :
        /\ pc = "done" /\ exit = "SUCCESS" /\ writes = 1
        /\ args.source_names = {n, m} /\ args.force /\ ~PinRun
        /\ loaded[n].pinned /\ file.map[n].pinned
        /\ file.map[n].version # loaded[n].version

C26_UnnamedWitness ==
    \E n, m \in DOMAIN loaded :
        /\ pc = "done" /\ exit = "SUCCESS" /\ writes = 1
        /\ args.source_names = {n} /\ m # n
        /\ file.map[n] # loaded[n]
        /\ file.map[m] = loaded[m]

\* ------------------------------------------------------------------- C27
AllWithoutForce(a) == (a.pin \/ a.unpin) /\ a.source_names = {} /\ ~a.force

C27_RefusedStep ==
    (pc = "idle" /\ pc' # "idle" /\ AllWithoutForce(args'))
    => /\ pc' = "done"
       /\ exit' = "FAILURE"
       /\ file' = file
       /\ writes' = 0
       /\ loaded' = << >> /\ sources' = sources
       /\ calls' = NoCalls

\* C27: `update` with --pin or --unpin, no names and no --force ends at once
\* with FAILURE, whatever the lockfile holds or fails to hold: nothing is
\* loaded, changed or written. With --force or a name the run is not refused:
\* it loads the lockfile, and when it ends with SUCCESS every selected source
\* of the file is pinned (unpinned).
C27_Refusal ==
    /\ [][C27_RefusedStep]_vars
    /\ [](AllWithoutForce(args) => pc # "loop")
    /\ []((pc = "done" /\ PinRun /\ ~AllWithoutForce(args) /\ file.json)
          => /\ loaded = file.map \/ writes = 1
             /\ exit = "SUCCESS"
                => \A n \in DOMAIN file.map :
                     (args.source_names = {} \/ n \in args.source_names)
                     => file.map[n].pinned = args.pin)

\* Refused on a lockfile that could not have been read.
C27_Witness ==
    /\ pc = "done" /\ exit = "FAILURE"
    /\ args.unpin /\ AllWithoutForce(args)
    /\ file = Truncated
    /\ writes = 0

C27_ForcedWitness ==
    /\ pc = "done" /\ exit = "SUCCESS" /\ writes = 1
    /\ args.pin /\ args.force /\ args.source_names = {}
    /\ DOMAIN file.map = SourceNames
    /\ \A n \in SourceNames : file.map[n].pinned
    /\ \E n \in SourceNames : ~loaded[n].pinned

====
